---- MODULE Spec2Model ----
(***************************************************************************)
(* Knowledge subsystem of the personal AI agent: the vector store          *)
(* (src/src/knowledge/vector_database.py), the memory manager              *)
(* (src/src/knowledge/memory_manager.py), the retrieval engine             *)
(* (src/src/knowledge/retrieval_engine.py) and the facade                  *)
(* (src/src/knowledge/knowledge_module.py).                                *)
(*                                                                         *)
(* Conventions.                                                            *)
(*  - A Python dict is an insertion-ordered sequence of [k, v] records     *)
(*    (Has/Get/Put/Del): assignment to an existing key keeps its place, a  *)
(*    new key is appended, del removes the key and keeps the others'       *)
(*    order.                                                               *)
(*  - uuid.uuid4() is a fresh identifier: a per-kind counter, never        *)
(*    reused.                                                              *)
(*  - A score is an integer in units of 1/ScoreScale.  Stored and query    *)
(*    vectors are drawn from integer vectors of integer norm, for which    *)
(*    the floating-point quotient dot/(norm*norm) is the correctly rounded *)
(*    rational, so comparing the scaled integers is comparing the floats.  *)
(*  - None and {} behave alike wherever the code reads a metadata or       *)
(*    filter dict (`metadata or {}`, `if filter_metadata and ...`): both   *)
(*    are the empty set of <<key, value>> pairs.                           *)
(*  - ret is the last call: its name, arguments and outcome.               *)
(***************************************************************************)
EXTENDS Integers, Sequences, FiniteSets, TLC

VARIABLES
    collections,        \* VectorDatabase.collections : collection_id -> VectorCollection
    entries,            \* VectorDatabase.entries : collection_id -> {entry_id -> VectorEntry}
    item_mapping,       \* VectorDatabase.item_mapping : item_id -> [(collection_id, entry_id)]
    short_term_memory,  \* MemoryManager.short_term_memory : item_id -> MemoryItem
    long_term_memory,   \* MemoryManager.long_term_memory : item_id -> MemoryItem
    categories,         \* MemoryManager.categories : category_id -> MemoryCategory
    knowledge_items,    \* KnowledgeModule.knowledge_items : item_id -> KnowledgeItem
    events,             \* KnowledgeModule.events : list of KnowledgeEvent
    session_states,     \* KnowledgeModule.session_states : session_id -> KnowledgeState
    uuid_count,         \* how many uuid4() identifiers of each kind were drawn
    clock,              \* datetime.now(), in ticks
    mover,              \* the thread inside move_to_long_term / move_to_short_term
    ret                 \* the last call and its outcome

vdbVars == <<collections, entries, item_mapping>>
memVars == <<short_term_memory, long_term_memory, categories>>
kmVars == <<knowledge_items, events, session_states>>
vars == <<collections, entries, item_mapping, short_term_memory, long_term_memory, categories, knowledge_items, events, session_states, uuid_count, clock, mover, ret>>

----------------------------------------------------------------------------
(* Bounds of the model *)

\* collections and entries the vector store's callers create (SpecStore)
MaxCollections == 2

MaxEntries == 2

----------------------------------------------------------------------------
(* Python dict and list semantics *)

Has(d, key) == \E i \in DOMAIN d : d[i].k = key

Get(d, key) == d[CHOOSE i \in DOMAIN d : d[i].k = key].v

Put(d, key, val) == IF Has(d, key) THEN [i \in DOMAIN d |-> IF d[i].k = key THEN [k |-> key, v |-> val] ELSE d[i]] ELSE Append(d, [k |-> key, v |-> val])

Del(d, key) == SelectSeq(d, LAMBDA e : e.k # key)

Keys(d) == {d[i].k : i \in DOMAIN d}

Min(a, b) == IF a <= b THEN a ELSE b

Max(a, b) == IF a >= b THEN a ELSE b

\* list[:n], a negative n counting from the end
Slice(s, n) == IF n >= 0 THEN SubSeq(s, 1, Min(n, Len(s))) ELSE SubSeq(s, 1, Max(Len(s) + n, 0))

\* str(uuid.uuid4()): the n-th fresh identifier of a kind
Uuid(kind, n) == kind \o ToString(n)

----------------------------------------------------------------------------
(* The last call *)

NoCall == [op |-> "", status |-> "ok", id1 |-> "", id2 |-> "", tag |-> "", vector |-> <<>>, metadata |-> {}, top_k |-> 0, threshold |-> 0, flag |-> FALSE, count |-> 0, list |-> <<>>, text |-> <<>>]

CollectionNotFound == "ValueError: Collection not found"

DimensionMismatch == "ValueError: Vector dimension mismatch"

----------------------------------------------------------------------------
(* VectorDatabase *)

VDB == [collections |-> collections, entries |-> entries, item_mapping |-> item_mapping]

EmptyVDB == [collections |-> <<>>, entries |-> <<>>, item_mapping |-> <<>>]

create_collection(db, collection_id, name, dimension) ==
    [db EXCEPT !.collections = Put(@, collection_id, [name |-> name, dimension |-> dimension]),
               !.entries = Put(@, collection_id, <<>>)]

\* add_vector without its dimension check
add_vector_unchecked(db, entry_id, collection_id, vector, item_id, metadata) ==
    IF ~Has(db.collections, collection_id)
    THEN [db |-> db, status |-> CollectionNotFound, value |-> ""]
    ELSE LET entry == [vector |-> vector, item_id |-> item_id, metadata |-> metadata]
             old == IF Has(db.item_mapping, item_id) THEN Get(db.item_mapping, item_id) ELSE <<>>
         IN  [db |-> [db EXCEPT !.entries = Put(@, collection_id, Put(Get(@, collection_id), entry_id, entry)),
                                !.item_mapping = Put(@, item_id, Append(old, <<collection_id, entry_id>>))],
              status |-> "ok", value |-> entry_id]

add_vector(db, entry_id, collection_id, vector, item_id, metadata) ==
    IF ~Has(db.collections, collection_id)
    THEN [db |-> db, status |-> CollectionNotFound, value |-> ""]
    ELSE IF Len(vector) # Get(db.collections, collection_id).dimension
    THEN [db |-> db, status |-> DimensionMismatch, value |-> ""]
    ELSE LET entry == [vector |-> vector, item_id |-> item_id, metadata |-> metadata]
             old == IF Has(db.item_mapping, item_id) THEN Get(db.item_mapping, item_id) ELSE <<>>
         IN  [db |-> [db EXCEPT !.entries = Put(@, collection_id, Put(Get(@, collection_id), entry_id, entry)),
                                !.item_mapping = Put(@, item_id, Append(old, <<collection_id, entry_id>>))],
              status |-> "ok", value |-> entry_id]

delete_vector(db, collection_id, entry_id) ==
    IF ~Has(db.collections, collection_id)
    THEN [db |-> db, value |-> FALSE]
    ELSE IF ~Has(Get(db.entries, collection_id), entry_id)
    THEN [db |-> db, value |-> FALSE]
    ELSE LET item_id == Get(Get(db.entries, collection_id), entry_id).item_id
             db1 == [db EXCEPT !.entries = Put(@, collection_id, Del(Get(@, collection_id), entry_id))]
             kept == SelectSeq(Get(db1.item_mapping, item_id), LAMBDA p : p[1] # collection_id \/ p[2] # entry_id)
         IN  IF ~Has(db1.item_mapping, item_id)
             THEN [db |-> db1, value |-> TRUE]
             ELSE IF kept = <<>>
             THEN [db |-> [db1 EXCEPT !.item_mapping = Del(@, item_id)], value |-> TRUE]
             ELSE [db |-> [db1 EXCEPT !.item_mapping = Put(@, item_id, kept)], value |-> TRUE]

RECURSIVE delete_each(_, _, _)
\* the loop of delete_item_vectors over the copied list of (collection_id, entry_id)
delete_each(db, vectors, count) ==
    IF vectors = <<>>
    THEN [db |-> db, value |-> count]
    ELSE LET r == delete_vector(db, Head(vectors)[1], Head(vectors)[2])
         IN  delete_each(r.db, Tail(vectors), IF r.value THEN count + 1 ELSE count)

delete_item_vectors(db, item_id) ==
    IF ~Has(db.item_mapping, item_id)
    THEN [db |-> db, value |-> 0]
    ELSE delete_each(db, Get(db.item_mapping, item_id), 0)

RECURSIVE unmap_each(_, _, _)
\* the loop of delete_collection over the collection's entries
unmap_each(mapping, collection_id, ents) ==
    IF ents = <<>>
    THEN mapping
    ELSE LET item_id == Head(ents).v.item_id
             kept == SelectSeq(Get(mapping, item_id), LAMBDA p : p[1] # collection_id)
             next == IF ~Has(mapping, item_id) THEN mapping
                     ELSE IF kept = <<>> THEN Del(mapping, item_id)
                     ELSE Put(mapping, item_id, kept)
         IN  unmap_each(next, collection_id, Tail(ents))

\* delete_collection without the reverse-index cleanup
delete_collection_keep_index(db, collection_id) ==
    IF ~Has(db.collections, collection_id)
    THEN [db |-> db, value |-> FALSE]
    ELSE [db |-> [collections |-> Del(db.collections, collection_id),
                  entries |-> Del(db.entries, collection_id),
                  item_mapping |-> db.item_mapping],
          value |-> TRUE]

delete_collection(db, collection_id) ==
    IF ~Has(db.collections, collection_id)
    THEN [db |-> db, value |-> FALSE]
    ELSE [db |-> [collections |-> Del(db.collections, collection_id),
                  entries |-> Del(db.entries, collection_id),
                  item_mapping |-> unmap_each(db.item_mapping, collection_id, Get(db.entries, collection_id))],
          value |-> TRUE]

----------------------------------------------------------------------------
(* VectorDatabase: similarity search *)

\* the unit of a score: a float s is the integer s * ScoreScale
ScoreScale == 100

RECURSIVE Dot(_, _)
Dot(a, b) == IF a = <<>> \/ b = <<>> THEN 0 ELSE Head(a) * Head(b) + Dot(Tail(a), Tail(b))

\* np.linalg.norm on a vector of integer norm
Norm(a) == LET n == Dot(a, a) IN CHOOSE r \in 0..n : r * r = n

cosine_similarity(vec1, vec2) ==
    LET dot_product == Dot(vec1, vec2)
        norm1 == Norm(vec1)
        norm2 == Norm(vec2)
    IN  IF norm1 = 0 \/ norm2 = 0 THEN 0 ELSE (dot_product * ScoreScale) \div (norm1 * norm2)

matches_metadata_filter(metadata, filter_metadata) ==
    \A f \in filter_metadata :
        ~(~(\E m \in metadata : m[1] = f[1]) \/ (\E m \in metadata : m[1] = f[1] /\ m[2] # f[2]))

RECURSIVE insert_desc(_, _)
\* where a stable descending sort puts x: behind every element whose score is not smaller
insert_desc(sorted, x) ==
    IF sorted = <<>> THEN <<x>>
    ELSE IF Head(sorted)[2] >= x[2] THEN <<Head(sorted)>> \o insert_desc(Tail(sorted), x)
    ELSE <<x>> \o sorted

RECURSIVE sort_desc(_)
\* list.sort(key=lambda x: x[1], reverse=True): stable, equal scores keep their order
sort_desc(s) == IF s = <<>> THEN <<>> ELSE insert_desc(sort_desc(SubSeq(s, 1, Len(s) - 1)), s[Len(s)])

RECURSIVE scan_entries(_, _, _, _)
\* the loop of search_vectors over the collection's entries, in dict order
scan_entries(ents, query_vector, threshold, filter_metadata) ==
    IF ents = <<>> THEN <<>>
    ELSE LET rest == scan_entries(Tail(ents), query_vector, threshold, filter_metadata)
             similarity == cosine_similarity(query_vector, Head(ents).v.vector)
         IN  IF filter_metadata # {} /\ ~matches_metadata_filter(Head(ents).v.metadata, filter_metadata) THEN rest
             ELSE IF similarity >= threshold THEN <<<<Head(ents).k, similarity>>>> \o rest
             ELSE rest

\* search_vectors with the sort left out
search_vectors_unsorted(db, collection_id, query_vector, top_k, threshold, filter_metadata) ==
    IF ~Has(db.collections, collection_id)
    THEN [status |-> CollectionNotFound, value |-> <<>>]
    ELSE IF Len(query_vector) # Get(db.collections, collection_id).dimension
    THEN [status |-> DimensionMismatch, value |-> <<>>]
    ELSE [status |-> "ok",
          value |-> Slice(scan_entries(Get(db.entries, collection_id), query_vector, threshold, filter_metadata), top_k)]

search_vectors(db, collection_id, query_vector, top_k, threshold, filter_metadata) ==
    IF ~Has(db.collections, collection_id)
    THEN [status |-> CollectionNotFound, value |-> <<>>]
    ELSE IF Len(query_vector) # Get(db.collections, collection_id).dimension
    THEN [status |-> DimensionMismatch, value |-> <<>>]
    ELSE [status |-> "ok",
          value |-> Slice(sort_desc(scan_entries(Get(db.entries, collection_id), query_vector, threshold, filter_metadata)), top_k)]

RECURSIVE dedup_items(_, _, _)
\* the loop of search_items over the vector results, seen_items being the ids already kept
dedup_items(ents, vector_results, seen_items) ==
    IF vector_results = <<>> THEN <<>>
    ELSE LET item_id == Get(ents, Head(vector_results)[1]).item_id
         IN  IF item_id \notin seen_items
             THEN <<<<item_id, Head(vector_results)[2]>>>> \o dedup_items(ents, Tail(vector_results), seen_items \cup {item_id})
             ELSE dedup_items(ents, Tail(vector_results), seen_items)

\* search_items without the seen_items test
search_items_keep_all(db, collection_id, query_vector, top_k, threshold, filter_metadata) ==
    LET r == search_vectors(db, collection_id, query_vector, top_k, threshold, filter_metadata)
    IN  IF r.status # "ok" THEN r
        ELSE [status |-> "ok",
              value |-> [i \in DOMAIN r.value |-> <<Get(Get(db.entries, collection_id), r.value[i][1]).item_id, r.value[i][2]>>]]

search_items(db, collection_id, query_vector, top_k, threshold, filter_metadata) ==
    LET r == search_vectors(db, collection_id, query_vector, top_k, threshold, filter_metadata)
    IN  IF r.status # "ok" THEN r
        ELSE [status |-> "ok", value |-> dedup_items(Get(db.entries, collection_id), r.value, {})]

----------------------------------------------------------------------------
(* MemoryManager *)

\* the unit of an importance or a confidence: a float x is the integer x * TenthScale
TenthScale == 10

\* MemoryType members the code names; all but short_term are kept in long_term_memory
MemoryTypes == {"short_term", "long_term", "semantic"}

MEM == [short |-> short_term_memory, long |-> long_term_memory, categories |-> categories]

RECURSIVE remove_first(_, _)
\* list.remove(x)
remove_first(s, x) == IF s = <<>> THEN <<>> ELSE IF Head(s) = x THEN Tail(s) ELSE <<Head(s)>> \o remove_first(Tail(s), x)

Contains(s, x) == \E i \in DOMAIN s : s[i] = x

\* store_item that takes the item out of the other tier
store_item_exclusive(mem, fresh_id, item) ==
    LET id == IF item.item_id = "" THEN fresh_id ELSE item.item_id
        stored == [item EXCEPT !.item_id = id]
    IN  IF item.memory_type = "short_term"
        THEN [mem |-> [mem EXCEPT !.short = Put(@, id, stored), !.long = Del(@, id)], value |-> id]
        ELSE [mem |-> [mem EXCEPT !.long = Put(@, id, stored), !.short = Del(@, id)], value |-> id]

store_item(mem, fresh_id, item) ==
    LET id == IF item.item_id = "" THEN fresh_id ELSE item.item_id
        stored == [item EXCEPT !.item_id = id]
    IN  IF item.memory_type = "short_term"
        THEN [mem |-> [mem EXCEPT !.short = Put(@, id, stored)], value |-> id]
        ELSE [mem |-> [mem EXCEPT !.long = Put(@, id, stored)], value |-> id]

\* retrieve_item that returns the item without touching its access record
retrieve_item_untouched(mem, item_id, now) ==
    IF Has(mem.short, item_id) THEN [mem |-> mem, found |-> TRUE, value |-> Get(mem.short, item_id)]
    ELSE IF Has(mem.long, item_id) THEN [mem |-> mem, found |-> TRUE, value |-> Get(mem.long, item_id)]
    ELSE [mem |-> mem, found |-> FALSE, value |-> <<>>]

retrieve_item(mem, item_id, now) ==
    IF Has(mem.short, item_id)
    THEN LET item == [Get(mem.short, item_id) EXCEPT !.last_accessed = now, !.access_count = @ + 1]
         IN  [mem |-> [mem EXCEPT !.short = Put(@, item_id, item)], found |-> TRUE, value |-> item]
    ELSE IF Has(mem.long, item_id)
    THEN LET item == [Get(mem.long, item_id) EXCEPT !.last_accessed = now, !.access_count = @ + 1]
         IN  [mem |-> [mem EXCEPT !.long = Put(@, item_id, item)], found |-> TRUE, value |-> item]
    ELSE [mem |-> mem, found |-> FALSE, value |-> <<>>]

update_item(mem, item) ==
    IF Has(mem.short, item.item_id)
    THEN [mem |-> [mem EXCEPT !.short = Put(@, item.item_id, item)], value |-> TRUE]
    ELSE IF Has(mem.long, item.item_id)
    THEN [mem |-> [mem EXCEPT !.long = Put(@, item.item_id, item)], value |-> TRUE]
    ELSE [mem |-> mem, value |-> FALSE]

\* the loop of delete_item over the categories
purge_categories(cats, item_id) ==
    [i \in DOMAIN cats |-> IF Contains(cats[i].v.items, item_id) THEN [cats[i] EXCEPT !.v.items = remove_first(@, item_id)] ELSE cats[i]]

\* delete_item without the loop over the categories
delete_item_keep_categories(mem, item_id) ==
    IF Has(mem.short, item_id)
    THEN [mem |-> [mem EXCEPT !.short = Del(@, item_id)], value |-> TRUE]
    ELSE IF Has(mem.long, item_id)
    THEN [mem |-> [mem EXCEPT !.long = Del(@, item_id)], value |-> TRUE]
    ELSE [mem |-> mem, value |-> FALSE]

delete_item(mem, item_id) ==
    IF Has(mem.short, item_id)
    THEN [mem |-> [mem EXCEPT !.short = Del(@, item_id), !.categories = purge_categories(@, item_id)], value |-> TRUE]
    ELSE IF Has(mem.long, item_id)
    THEN [mem |-> [mem EXCEPT !.long = Del(@, item_id), !.categories = purge_categories(@, item_id)], value |-> TRUE]
    ELSE [mem |-> mem, value |-> FALSE]

create_category(mem, category_id, name, parent_id) ==
    [mem EXCEPT !.categories = Put(@, category_id, [name |-> name, parent_id |-> parent_id, items |-> <<>>])]

add_item_to_category(mem, item_id, category_id) ==
    IF ~Has(mem.categories, category_id)
    THEN [mem |-> mem, value |-> FALSE]
    ELSE IF ~Has(mem.short, item_id) /\ ~Has(mem.long, item_id)
    THEN [mem |-> mem, value |-> FALSE]
    ELSE LET category == Get(mem.categories, category_id)
         IN  IF ~Contains(category.items, item_id)
             THEN [mem |-> [mem EXCEPT !.categories = Put(@, category_id, [category EXCEPT !.items = Append(@, item_id)])], value |-> TRUE]
             ELSE [mem |-> mem, value |-> TRUE]

\* move_to_long_term that copies the item and leaves it in short-term memory
move_to_long_term_copy(mem, item_id) ==
    IF ~Has(mem.short, item_id)
    THEN [mem |-> mem, value |-> FALSE]
    ELSE LET item == [Get(mem.short, item_id) EXCEPT !.memory_type = "long_term"]
         IN  [mem |-> [mem EXCEPT !.long = Put(@, item_id, item)], value |-> TRUE]

move_to_long_term(mem, item_id) ==
    IF ~Has(mem.short, item_id)
    THEN [mem |-> mem, value |-> FALSE]
    ELSE LET item == [Get(mem.short, item_id) EXCEPT !.memory_type = "long_term"]
         IN  [mem |-> [mem EXCEPT !.long = Put(@, item_id, item), !.short = Del(@, item_id)], value |-> TRUE]

move_to_short_term(mem, item_id) ==
    IF ~Has(mem.long, item_id)
    THEN [mem |-> mem, value |-> FALSE]
    ELSE LET item == [Get(mem.long, item_id) EXCEPT !.memory_type = "short_term"]
         IN  [mem |-> [mem EXCEPT !.short = Put(@, item_id, item), !.long = Del(@, item_id)], value |-> TRUE]

\* importance < 0.3
LowImportance == 3

\* access_count < 3
LowAccess == 3

RECURSIVE move_each(_, _)
\* the loop of optimize_memory over items_to_move
move_each(mem, items_to_move) ==
    IF items_to_move = <<>> THEN mem ELSE move_each(move_to_long_term(mem, Head(items_to_move)).mem, Tail(items_to_move))

optimize_memory(mem) ==
    LET low == SelectSeq(mem.short, LAMBDA e : e.v.importance < LowImportance /\ e.v.access_count < LowAccess)
        items_to_move == [i \in DOMAIN low |-> low[i].k]
    IN  [mem |-> move_each(mem, items_to_move),
         items_affected |-> Len(items_to_move),
         initial_short_term_count |-> Len(mem.short),
         final_short_term_count |-> Len(mem.short) - Len(items_to_move),
         items_moved |-> items_to_move]

RECURSIVE retrieve_each(_, _, _, _)
\* the loop of get_items_by_category over category.items
retrieve_each(mem, item_ids, now, items) ==
    IF item_ids = <<>> THEN [mem |-> mem, value |-> items]
    ELSE LET r == retrieve_item(mem, Head(item_ids), now)
         IN  retrieve_each(r.mem, Tail(item_ids), now, IF r.found THEN Append(items, r.value) ELSE items)

get_items_by_category(mem, category_id, now) ==
    IF ~Has(mem.categories, category_id) THEN [mem |-> mem, value |-> <<>>]
    ELSE retrieve_each(mem, Get(mem.categories, category_id).items, now, <<>>)

get_memory_stats(mem) ==
    [short_term_count |-> Len(mem.short), long_term_count |-> Len(mem.long),
     category_count |-> Len(mem.categories), total_items |-> Len(mem.short) + Len(mem.long)]

\* recency in units of 1/RecencyScale
RecencyScale == 100

\* key=lambda x: (x.importance * 0.7 + x.recency * 0.3)
ImportanceWeight == 7

RecencyWeight == 3

\* _calculate_recency: 2 ** (-time_diff / 3600) kept within [0, 1]; time is counted in
\* hours, and the power of two is exact for the ages the inputs reach
calculate_recency(timestamp, now) ==
    IF now - timestamp <= 0 THEN RecencyScale ELSE RecencyScale \div (2 ^ (now - timestamp))

\* _estimate_token_count: len(text) // 4 + 1
estimate_token_count(text) == Len(text) \div 4 + 1

\* the ContextItem of lines 337-345
context_item(item, now) ==
    [item_id |-> item.item_id, content |-> item.content, importance |-> item.importance,
     recency |-> calculate_recency(item.last_accessed, now),
     token_count |-> estimate_token_count(item.content), source |-> "memory"]

\* the sort key of a strategy, in units of 1/(TenthScale * TenthScale * RecencyScale)
sort_key(strategy, x) ==
    IF strategy = "importance_recency"
    THEN x.importance * ImportanceWeight * RecencyScale + x.recency * RecencyWeight * TenthScale
    ELSE IF strategy = "importance" THEN x.importance * TenthScale * RecencyScale
    ELSE x.recency * TenthScale * TenthScale

\* lines 349-360: a stable descending sort for the three strategies, no sort for any other
sort_context_items(context_items, strategy) ==
    IF strategy \in {"importance_recency", "importance", "recency"}
    THEN LET keyed == sort_desc([i \in DOMAIN context_items |-> <<context_items[i], sort_key(strategy, context_items[i])>>])
         IN  [i \in DOMAIN keyed |-> keyed[i][1]]
    ELSE context_items

RECURSIVE select_items_past_budget(_, _, _, _)
\* the selection loop testing the budget before the item is counted
select_items_past_budget(context_items, max_tokens, selected_items, current_tokens) ==
    IF context_items = <<>> THEN [items |-> selected_items, current_tokens |-> current_tokens]
    ELSE IF current_tokens <= max_tokens
    THEN select_items_past_budget(Tail(context_items), max_tokens, Append(selected_items, Head(context_items)),
                                  current_tokens + Head(context_items).token_count)
    ELSE [items |-> selected_items, current_tokens |-> current_tokens]

RECURSIVE select_items_strict(_, _, _, _)
\* the selection loop with < in place of <=
select_items_strict(context_items, max_tokens, selected_items, current_tokens) ==
    IF context_items = <<>> THEN [items |-> selected_items, current_tokens |-> current_tokens]
    ELSE IF current_tokens + Head(context_items).token_count < max_tokens
    THEN select_items_strict(Tail(context_items), max_tokens, Append(selected_items, Head(context_items)),
                             current_tokens + Head(context_items).token_count)
    ELSE [items |-> selected_items, current_tokens |-> current_tokens]

RECURSIVE select_items_skipping(_, _, _, _)
\* the selection loop going on to the next item where the code breaks
select_items_skipping(context_items, max_tokens, selected_items, current_tokens) ==
    IF context_items = <<>> THEN [items |-> selected_items, current_tokens |-> current_tokens]
    ELSE IF current_tokens + Head(context_items).token_count <= max_tokens
    THEN select_items_skipping(Tail(context_items), max_tokens, Append(selected_items, Head(context_items)),
                               current_tokens + Head(context_items).token_count)
    ELSE select_items_skipping(Tail(context_items), max_tokens, selected_items, current_tokens)

RECURSIVE select_items(_, _, _, _)
\* the loop of lines 363-371, which stops at the first item that does not fit
select_items(context_items, max_tokens, selected_items, current_tokens) ==
    IF context_items = <<>> THEN [items |-> selected_items, current_tokens |-> current_tokens]
    ELSE IF current_tokens + Head(context_items).token_count <= max_tokens
    THEN select_items(Tail(context_items), max_tokens, Append(selected_items, Head(context_items)),
                      current_tokens + Head(context_items).token_count)
    ELSE [items |-> selected_items, current_tokens |-> current_tokens]

\* create_context_window that reads both tiers
create_context_window_all_tiers(mem, window_id, max_tokens, strategy, now) ==
    LET all_items == mem.short \o mem.long
        context_items == [i \in DOMAIN all_items |-> context_item(all_items[i].v, now)]
        selection == select_items(sort_context_items(context_items, strategy), max_tokens, <<>>, 0)
    IN  [window_id |-> window_id, items |-> selection.items, max_tokens |-> max_tokens,
         current_tokens |-> selection.current_tokens, strategy |-> strategy]

create_context_window(mem, window_id, max_tokens, strategy, now) ==
    LET context_items == [i \in DOMAIN mem.short |-> context_item(mem.short[i].v, now)]
        selection == select_items(sort_context_items(context_items, strategy), max_tokens, <<>>, 0)
    IN  [window_id |-> window_id, items |-> selection.items, max_tokens |-> max_tokens,
         current_tokens |-> selection.current_tokens, strategy |-> strategy]

----------------------------------------------------------------------------
(* Inputs of the vector store's callers *)

Dimensions == {2}

Vectors == {<<1>>, <<1, 0>>}

ItemIds == {"a", "b"}

Metadatas == {{<<"lang", "en">>}}

\* every collection id uuid4 can return within the bounds, and one it never returns
CollectionIds == {Uuid("c", i) : i \in 0..MaxCollections}

EntryIds == {Uuid("e", i) : i \in 0..MaxEntries}

----------------------------------------------------------------------------
(* State after construction *)

InitVdb == collections = <<>> /\ entries = <<>> /\ item_mapping = <<>>

InitMem == short_term_memory = <<>> /\ long_term_memory = <<>> /\ categories = <<>>

InitKm == knowledge_items = <<>> /\ events = <<>> /\ session_states = <<>>

NoUuids == [collection |-> 0, entry |-> 0, item |-> 0, category |-> 0, query |-> 0, event |-> 0, window |-> 0]

Idle == [pc |-> "idle", op |-> "", item_id |-> ""]

SetVDB(db) == collections' = db.collections /\ entries' = db.entries /\ item_mapping' = db.item_mapping

----------------------------------------------------------------------------
(* Calls on the vector store *)

CreateCollection(dimension) ==
    /\ LET cid == Uuid("c", uuid_count.collection + 1)
       IN  /\ SetVDB(create_collection(VDB, cid, "aux", dimension))
           /\ ret' = [NoCall EXCEPT !.op = "create_collection", !.id1 = cid, !.count = dimension]
    /\ uuid_count' = [uuid_count EXCEPT !.collection = @ + 1]
    /\ UNCHANGED <<memVars, kmVars, mover, clock>>

AddVector(collection_id, vector, item_id, metadata) ==
    LET r == add_vector(VDB, Uuid("e", uuid_count.entry + 1), collection_id, vector, item_id, metadata)
    IN  /\ SetVDB(r.db)
        /\ uuid_count' = IF r.status = "ok" THEN [uuid_count EXCEPT !.entry = @ + 1] ELSE uuid_count
        /\ ret' = [NoCall EXCEPT !.op = "add_vector", !.status = r.status, !.id1 = collection_id, !.id2 = item_id,
                                 !.vector = vector, !.metadata = metadata, !.list = <<r.value>>]
        /\ UNCHANGED <<memVars, kmVars, mover, clock>>

DeleteVector(collection_id, entry_id) ==
    LET r == delete_vector(VDB, collection_id, entry_id)
    IN  /\ SetVDB(r.db)
        /\ ret' = [NoCall EXCEPT !.op = "delete_vector", !.id1 = collection_id, !.id2 = entry_id, !.flag = r.value]
        /\ UNCHANGED <<memVars, kmVars, uuid_count, mover, clock>>

DeleteItemVectors(item_id) ==
    LET r == delete_item_vectors(VDB, item_id)
    IN  /\ SetVDB(r.db)
        /\ ret' = [NoCall EXCEPT !.op = "delete_item_vectors", !.id2 = item_id, !.count = r.value]
        /\ UNCHANGED <<memVars, kmVars, uuid_count, mover, clock>>

DeleteCollection(collection_id) ==
    LET r == delete_collection(VDB, collection_id)
    IN  /\ SetVDB(r.db)
        /\ ret' = [NoCall EXCEPT !.op = "delete_collection", !.id1 = collection_id, !.flag = r.value]
        /\ UNCHANGED <<memVars, kmVars, uuid_count, mover, clock>>

InitStore == InitVdb /\ InitMem /\ InitKm /\ uuid_count = NoUuids /\ clock = 0 /\ mover = Idle /\ ret = NoCall

NextStore ==
    \/ \E d \in Dimensions : uuid_count.collection < MaxCollections /\ CreateCollection(d)
    \/ \E c \in CollectionIds, v \in Vectors, i \in ItemIds, m \in Metadatas : uuid_count.entry < MaxEntries /\ AddVector(c, v, i, m)
    \/ \E c \in CollectionIds, e \in EntryIds : DeleteVector(c, e)
    \/ \E i \in ItemIds : DeleteItemVectors(i)
    \/ \E c \in CollectionIds : DeleteCollection(c)

\* the vector store under any sequence of its mutating calls
SpecStore == InitStore /\ [][NextStore]_vars

----------------------------------------------------------------------------
(* Claims on the vector store's mutating calls *)

\* the call made by this step, read against the state before it
BadAddVector == ret'.op = "add_vector" /\ (~Has(collections, ret'.id1) \/ Len(ret'.vector) # Get(collections, ret'.id1).dimension)

\* C1: add_vector with a vector whose length differs from the collection's
\* dimension fails with the dimension-mismatch error, add_vector on an unknown
\* collection fails with the collection-not-found error, and either leaves the
\* collections, their entries and the reverse index as they were.
C1_DimensionInvariant ==
    [][BadAddVector =>
        /\ ret'.status = (IF Has(collections, ret'.id1) THEN DimensionMismatch ELSE CollectionNotFound)
        /\ entries' = entries
        /\ item_mapping' = item_mapping
        /\ collections' = collections]_vars

\* a rejected insertion into a collection that holds entries
C1_Witness ==
    /\ ret.op = "add_vector"
    /\ ret.status = DimensionMismatch
    /\ Has(entries, ret.id1)
    /\ Get(entries, ret.id1) # <<>>
    /\ item_mapping # <<>>

Pairs(db, item_id) == IF Has(db.item_mapping, item_id) THEN Get(db.item_mapping, item_id) ELSE <<>>

\* C2: the reverse index and the collections agree: every listed pair is an
\* existing entry of an existing collection whose item_id is the listing item,
\* every existing entry is listed exactly once under its item_id, no item maps
\* to an empty list, and no pair refers to a deleted collection.
C2_ReverseIndexAgrees ==
    /\ Keys(entries) = Keys(collections)
    /\ \A i \in DOMAIN item_mapping :
        /\ item_mapping[i].v # <<>>
        /\ \A j \in DOMAIN item_mapping[i].v :
            LET p == item_mapping[i].v[j]
            IN  /\ Has(collections, p[1])
                /\ Has(entries, p[1])
                /\ Has(Get(entries, p[1]), p[2])
                /\ Get(Get(entries, p[1]), p[2]).item_id = item_mapping[i].k
    /\ \A c \in DOMAIN entries : \A e \in DOMAIN entries[c].v :
        LET ps == Pairs(VDB, entries[c].v[e].v.item_id)
        IN  Cardinality({j \in DOMAIN ps : ps[j] = <<entries[c].k, entries[c].v[e].k>>}) = 1
    /\ (ret.op = "delete_collection" /\ ret.flag) =>
        \A i \in DOMAIN item_mapping : \A j \in DOMAIN item_mapping[i].v : item_mapping[i].v[j][1] # ret.id1

\* a collection was deleted while one of its items keeps a vector elsewhere
C2_Witness ==
    /\ ret.op = "delete_collection"
    /\ ret.flag
    /\ item_mapping # <<>>
    /\ \E i \in DOMAIN item_mapping : ~Has(collections, "c1") /\ item_mapping[i].v[1][1] = "c2"

----------------------------------------------------------------------------
(* Searches of a collection snapshot *)

\* entries a searched collection holds
MaxSnapshot == 3

StoredVectors == {<<1, 0>>, <<3, 4>>}

SearchDimension == Len(CHOOSE v \in StoredVectors : TRUE)

QueryVectors == {<<1, 0>>, <<0, 0>>}

TopKs == -1..3

Thresholds == {0, 60}

Filters == {{}, {<<"lang", "en">>}}

SnapshotMetadatas == {{}, {<<"lang", "en">>}}

SnapshotInputs == [vector : StoredVectors, item_id : ItemIds, metadata : SnapshotMetadatas]

RECURSIVE add_all(_, _, _)
\* the store after add_vector of each input in turn, the n-th entry getting the n-th entry id
add_all(db, inputs, n) ==
    IF inputs = <<>> THEN db
    ELSE add_all(add_vector(db, Uuid("e", n), "c1", Head(inputs).vector, Head(inputs).item_id, Head(inputs).metadata).db, Tail(inputs), n + 1)

Snapshot(inputs) == add_all(create_collection(EmptyVDB, "c1", "aux", SearchDimension), inputs, 1)

InitSearch ==
    /\ \E n \in 0..MaxSnapshot : \E inputs \in [1..n -> SnapshotInputs] :
        /\ collections = Snapshot(inputs).collections
        /\ entries = Snapshot(inputs).entries
        /\ item_mapping = Snapshot(inputs).item_mapping
        /\ uuid_count = [NoUuids EXCEPT !.collection = 1, !.entry = n]
    /\ InitMem /\ InitKm /\ clock = 0 /\ mover = Idle /\ ret = NoCall

SearchVectors(collection_id, query_vector, top_k, threshold, filter_metadata) ==
    LET r == search_vectors(VDB, collection_id, query_vector, top_k, threshold, filter_metadata)
    IN  /\ ret' = [NoCall EXCEPT !.op = "search_vectors", !.status = r.status, !.id1 = collection_id, !.vector = query_vector,
                                 !.top_k = top_k, !.threshold = threshold, !.metadata = filter_metadata, !.list = r.value]
        /\ UNCHANGED <<vdbVars, memVars, kmVars, uuid_count, mover, clock>>

SearchItems(collection_id, query_vector, top_k, threshold, filter_metadata) ==
    LET r == search_items(VDB, collection_id, query_vector, top_k, threshold, filter_metadata)
    IN  /\ ret' = [NoCall EXCEPT !.op = "search_items", !.status = r.status, !.id1 = collection_id, !.vector = query_vector,
                                 !.top_k = top_k, !.threshold = threshold, !.metadata = filter_metadata, !.list = r.value]
        /\ UNCHANGED <<vdbVars, memVars, kmVars, uuid_count, mover, clock>>

\* one search of the snapshot: a search changes nothing a later search reads
NextSearch ==
    /\ ret = NoCall
    /\ \/ \E q \in QueryVectors, k \in TopKs, t \in Thresholds, f \in Filters : SearchVectors("c1", q, k, t, f)
       \/ \E q \in QueryVectors, k \in TopKs, t \in Thresholds, f \in Filters : SearchItems("c1", q, k, t, f)
       \/ \E c \in {"c0", "c1"}, q \in {<<1>>, <<1, 0>>} : SearchVectors(c, q, 1, 0, {})
       \/ \E c \in {"c0", "c1"}, q \in {<<1>>, <<1, 0>>} : SearchItems(c, q, 1, 0, {})

SpecSearch == InitSearch /\ [][NextSearch]_vars

----------------------------------------------------------------------------
(* Claims on search *)

Searched == Get(entries, ret.id1)

ScoreAt(i) == cosine_similarity(ret.vector, Searched[i].v.vector)

\* the entries the reference list keeps: metadata equal to the filter on every
\* filter key, similarity at least the threshold
Kept == {i \in DOMAIN Searched : ret.metadata \subseteq Searched[i].v.metadata /\ ScoreAt(i) >= ret.threshold}

\* the place of a kept entry in the reference list: behind the kept entries of
\* higher score and the earlier inserted ones of equal score
Place(i) == 1 + Cardinality({j \in Kept : ScoreAt(j) > ScoreAt(i) \/ (ScoreAt(j) = ScoreAt(i) /\ j < i)})

\* C4: for a count top_k >= 0, search_vectors returns exactly the first top_k
\* elements of the reference list: the entries in insertion order whose
\* metadata equals the filter on every filter key and whose cosine similarity
\* is at least the threshold, by score descending, equal scores in insertion
\* order.  The result is a function of the snapshot and the arguments alone.
C4_SearchIsReferencePrefix ==
    (ret.op = "search_vectors" /\ ret.status = "ok" /\ ret.top_k >= 0) =>
        /\ Len(ret.list) = Min(ret.top_k, Cardinality(Kept))
        /\ \A i \in Kept : Place(i) <= ret.top_k => ret.list[Place(i)] = <<Searched[i].k, ScoreAt(i)>>

\* a search whose filter dropped an entry, and whose top_k cut one of two kept
\* entries of equal score
C4_Witness ==
    /\ ret.op = "search_vectors"
    /\ ret.status = "ok"
    /\ ret.metadata # {}
    /\ ret.top_k = 1
    /\ Len(ret.list) = 1
    /\ Cardinality(Kept) = 2
    /\ Len(Searched) = 3
    /\ \A i, j \in Kept : ScoreAt(i) = ScoreAt(j)
    /\ ret.list[1][2] > ret.threshold

\* the vector results search_items starts from
VectorResults == search_vectors(VDB, ret.id1, ret.vector, ret.top_k, ret.threshold, ret.metadata).value

ItemOf(i) == Get(Searched, VectorResults[i][1]).item_id

\* the vector results that are the first of their item
Firsts == {i \in DOMAIN VectorResults : \A j \in 1..(i - 1) : ItemOf(j) # ItemOf(i)}

\* C5: search_items returns each item_id at most once: of the search_vectors
\* results only the first occurrence of each item is kept, with that score
\* (the item's highest), and the survivors keep their relative order.
C5_SearchItemsDeduplicates ==
    (ret.op = "search_items" /\ ret.status = "ok") =>
        /\ \A p, q \in DOMAIN ret.list : p # q => ret.list[p][1] # ret.list[q][1]
        /\ Len(ret.list) = Cardinality(Firsts)
        /\ \A i \in Firsts : ret.list[1 + Cardinality({j \in Firsts : j < i})] = <<ItemOf(i), VectorResults[i][2]>>
        /\ \A p \in DOMAIN ret.list : \A i \in DOMAIN VectorResults : ItemOf(i) = ret.list[p][1] => VectorResults[i][2] <= ret.list[p][2]

\* two vectors of one item were among the results, around a vector of another item
C5_Witness ==
    /\ ret.op = "search_items"
    /\ ret.status = "ok"
    /\ Len(VectorResults) = 3
    /\ ItemOf(1) = ItemOf(3)
    /\ ItemOf(1) # ItemOf(2)
    /\ Len(ret.list) = 2

----------------------------------------------------------------------------
(* Calls on the memory manager *)

\* ids store_item draws for items passed without one (SpecMemory)
MaxGenerated == 1

\* ids a caller passes: none (store_item draws one), its own, or one store_item returned
CallerIds == {"", "x"} \cup {Uuid("m", i) : i \in 1..MaxGenerated}

\* (importance, access_count) of the items callers build
Profiles == {<<2, 0>>, <<5, 0>>}

MemoryItemInputs == {[item_id |-> id, content |-> <<"a">>, memory_type |-> t, importance |-> p[1], access_count |-> p[2], last_accessed |-> 0] : id \in CallerIds, t \in MemoryTypes, p \in Profiles}

StoredIds == Keys(short_term_memory) \cup Keys(long_term_memory)

SetMEM(mem) == short_term_memory' = mem.short /\ long_term_memory' = mem.long /\ categories' = mem.categories

StoreItem(item) ==
    LET r == store_item(MEM, Uuid("m", uuid_count.item + 1), [item EXCEPT !.last_accessed = clock])
    IN  /\ SetMEM(r.mem)
        /\ uuid_count' = IF item.item_id = "" THEN [uuid_count EXCEPT !.item = @ + 1] ELSE uuid_count
        /\ ret' = [NoCall EXCEPT !.op = "store_item", !.id1 = item.item_id, !.id2 = r.value]
        /\ UNCHANGED <<vdbVars, kmVars, mover, clock>>

UpdateItem(item) ==
    LET r == update_item(MEM, [item EXCEPT !.last_accessed = clock])
    IN  /\ SetMEM(r.mem)
        /\ ret' = [NoCall EXCEPT !.op = "update_item", !.id2 = item.item_id, !.flag = r.value]
        /\ UNCHANGED <<vdbVars, kmVars, uuid_count, mover, clock>>

DeleteItem(item_id) ==
    LET r == delete_item(MEM, item_id)
    IN  /\ SetMEM(r.mem)
        /\ ret' = [NoCall EXCEPT !.op = "delete_item", !.id2 = item_id, !.flag = r.value]
        /\ UNCHANGED <<vdbVars, kmVars, uuid_count, mover, clock>>

MoveToLongTerm(item_id) ==
    LET r == move_to_long_term(MEM, item_id)
    IN  /\ SetMEM(r.mem)
        /\ ret' = [NoCall EXCEPT !.op = "move_to_long_term", !.id2 = item_id, !.flag = r.value]
        /\ UNCHANGED <<vdbVars, kmVars, uuid_count, mover, clock>>

MoveToShortTerm(item_id) ==
    LET r == move_to_short_term(MEM, item_id)
    IN  /\ SetMEM(r.mem)
        /\ ret' = [NoCall EXCEPT !.op = "move_to_short_term", !.id2 = item_id, !.flag = r.value]
        /\ UNCHANGED <<vdbVars, kmVars, uuid_count, mover, clock>>

OptimizeMemory ==
    LET r == optimize_memory(MEM)
    IN  /\ SetMEM(r.mem)
        /\ ret' = [NoCall EXCEPT !.op = "optimize_memory", !.flag = TRUE, !.count = r.items_affected, !.list = r.items_moved]
        /\ UNCHANGED <<vdbVars, kmVars, uuid_count, mover, clock>>

InitMemory == InitVdb /\ InitMem /\ InitKm /\ uuid_count = NoUuids /\ clock = 0 /\ mover = Idle /\ ret = NoCall

NextMemory ==
    \/ \E item \in MemoryItemInputs :
        /\ item.item_id = "" => uuid_count.item < MaxGenerated
        /\ StoreItem(item)
    \/ \E item \in MemoryItemInputs : item.item_id # "" /\ UpdateItem(item)
    \/ \E id \in CallerIds : DeleteItem(id)
    \/ \E id \in CallerIds : MoveToLongTerm(id)
    \/ \E id \in CallerIds : MoveToShortTerm(id)
    \/ OptimizeMemory

\* the memory manager under any sequence of its tier-changing calls
SpecMemory == InitMemory /\ [][NextMemory]_vars

----------------------------------------------------------------------------
(* Claims on the memory tiers *)

\* C8: after a successful move_to_long_term(id) the id is not in short-term
\* and is in long-term memory, and symmetrically for move_to_short_term; a
\* move of an id that is not in the source tier returns False and changes
\* neither tier map nor any item.
C8_TierExclusivity ==
    [][/\ ret'.op = "move_to_long_term" =>
            /\ ret'.flag = Has(short_term_memory, ret'.id2)
            /\ ret'.flag => ~Has(short_term_memory', ret'.id2) /\ Has(long_term_memory', ret'.id2)
            /\ ~ret'.flag => short_term_memory' = short_term_memory /\ long_term_memory' = long_term_memory /\ categories' = categories
       /\ ret'.op = "move_to_short_term" =>
            /\ ret'.flag = Has(long_term_memory, ret'.id2)
            /\ ret'.flag => ~Has(long_term_memory', ret'.id2) /\ Has(short_term_memory', ret'.id2)
            /\ ~ret'.flag => short_term_memory' = short_term_memory /\ long_term_memory' = long_term_memory /\ categories' = categories]_vars

\* an item was moved to long-term memory past another item that stayed
C8_Witness ==
    /\ ret.op = "move_to_long_term"
    /\ ret.flag
    /\ Has(long_term_memory, ret.id2)
    /\ short_term_memory # <<>>

\* C9: no id is a key of both short_term_memory and long_term_memory.
C9_OneTierPerId == Keys(short_term_memory) \cap Keys(long_term_memory) = {}

----------------------------------------------------------------------------
(* A tier move interleaved with another caller's reads *)

\* retrievals an observer makes of one item (SpecMove)
MaxAccess == 2

\* each id is in short-term memory, in long-term memory, or not stored
MoveIds == {"x", "y"}

Placements == [MoveIds -> {"short_term", "long_term", ""}]

RECURSIVE store_all(_, _)
\* the memory after store_item of each item in turn
store_all(mem, items) == IF items = <<>> THEN mem ELSE store_all(store_item(mem, "", Head(items)).mem, Tail(items))

Placed(pl) ==
    LET item(id) == [item_id |-> id, content |-> <<"a">>, memory_type |-> pl[id], importance |-> 5, access_count |-> 0, last_accessed |-> 0]
        stored == SelectSeq(<<"x", "y">>, LAMBDA id : pl[id] # "")
    IN  store_all([short |-> <<>>, long |-> <<>>, categories |-> <<>>], [i \in DOMAIN stored |-> item(stored[i])])

InitMove ==
    /\ \E pl \in Placements :
        /\ short_term_memory = Placed(pl).short
        /\ long_term_memory = Placed(pl).long
        /\ categories = Placed(pl).categories
    /\ InitVdb /\ InitKm /\ uuid_count = NoUuids /\ clock = 0 /\ mover = Idle /\ ret = NoCall

\* the source and destination maps of the move the mover is in
Source(op) == IF op = "move_to_long_term" THEN short_term_memory ELSE long_term_memory

\* lines 228-232 / 254-258: the membership test, and on success the read of the item
MoveBegin(op, item_id) ==
    /\ mover.pc = "idle"
    /\ IF Has(Source(op), item_id)
       THEN mover' = [pc |-> "got_item", op |-> op, item_id |-> item_id] /\ ret' = ret
       ELSE mover' = mover /\ ret' = [NoCall EXCEPT !.op = op, !.id2 = item_id, !.flag = FALSE]
    /\ UNCHANGED <<vdbVars, memVars, kmVars, uuid_count, clock>>

\* lines 235 / 261: item.memory_type is set on the object the source map holds
MoveSetType ==
    /\ mover.pc = "got_item"
    /\ IF mover.op = "move_to_long_term"
       THEN /\ short_term_memory' = Put(short_term_memory, mover.item_id, [Get(short_term_memory, mover.item_id) EXCEPT !.memory_type = "long_term"])
            /\ long_term_memory' = long_term_memory
       ELSE /\ long_term_memory' = Put(long_term_memory, mover.item_id, [Get(long_term_memory, mover.item_id) EXCEPT !.memory_type = "short_term"])
            /\ short_term_memory' = short_term_memory
    /\ mover' = [mover EXCEPT !.pc = "typed"]
    /\ UNCHANGED <<vdbVars, categories, kmVars, uuid_count, clock, ret>>

\* lines 238 / 264: the destination map gets the item
MoveInsert ==
    /\ mover.pc = "typed"
    /\ IF mover.op = "move_to_long_term"
       THEN /\ long_term_memory' = Put(long_term_memory, mover.item_id, Get(short_term_memory, mover.item_id))
            /\ short_term_memory' = short_term_memory
       ELSE /\ short_term_memory' = Put(short_term_memory, mover.item_id, Get(long_term_memory, mover.item_id))
            /\ long_term_memory' = long_term_memory
    /\ mover' = [mover EXCEPT !.pc = "inserted"]
    /\ UNCHANGED <<vdbVars, categories, kmVars, uuid_count, clock, ret>>

\* lines 239-241 / 265-267: the source map loses the key and the call returns True.
\* Both maps held the same object, so the destination has what the source had.
MoveDelete ==
    /\ mover.pc = "inserted"
    /\ IF mover.op = "move_to_long_term"
       THEN /\ long_term_memory' = Put(long_term_memory, mover.item_id, Get(short_term_memory, mover.item_id))
            /\ short_term_memory' = Del(short_term_memory, mover.item_id)
       ELSE /\ short_term_memory' = Put(short_term_memory, mover.item_id, Get(long_term_memory, mover.item_id))
            /\ long_term_memory' = Del(long_term_memory, mover.item_id)
    /\ mover' = Idle
    /\ ret' = [NoCall EXCEPT !.op = mover.op, !.id2 = mover.item_id, !.flag = TRUE]
    /\ UNCHANGED <<vdbVars, categories, kmVars, uuid_count, clock>>

\* another caller's get_memory_stats, whole
GetMemoryStats ==
    LET stats == get_memory_stats(MEM)
    IN  /\ ret' = [NoCall EXCEPT !.op = "get_memory_stats", !.count = stats.total_items,
                                 !.list = <<stats.short_term_count, stats.long_term_count, stats.category_count>>]
        /\ UNCHANGED <<vdbVars, memVars, kmVars, uuid_count, clock, mover>>

\* another caller's retrieve_item, whole
RetrieveItem(item_id) ==
    LET r == retrieve_item(MEM, item_id, clock)
    IN  /\ SetMEM(r.mem)
        /\ ret' = [NoCall EXCEPT !.op = "retrieve_item", !.id2 = item_id, !.flag = r.found,
                                 !.tag = IF r.found THEN r.value.memory_type ELSE "",
                                 !.count = IF r.found THEN r.value.access_count ELSE 0]
        /\ UNCHANGED <<vdbVars, kmVars, uuid_count, clock, mover>>

NextMove ==
    \/ \E op \in {"move_to_long_term", "move_to_short_term"}, id \in MoveIds : MoveBegin(op, id)
    \/ MoveSetType
    \/ MoveInsert
    \/ MoveDelete
    \/ GetMemoryStats
    \/ \E id \in MoveIds : (\A e \in {short_term_memory, long_term_memory} : Has(e, id) => Get(e, id).access_count < MaxAccess) /\ RetrieveItem(id)

\* the code takes no lock: a thread inside a move can be preempted between any
\* two of its statements
SpecMove == InitMove /\ [][NextMove]_vars

\* C10: a get_memory_stats or retrieve_item interleaved with the steps of a
\* move never observes the moved item in both tiers nor in neither: the
\* statistics count every stored item once, and a stored item is found.
C10_MoveAtomicToObservers ==
    [][/\ (ret'.op = "get_memory_stats" /\ mover' = mover) => ret'.count = Cardinality(StoredIds)
       /\ (ret'.op = "retrieve_item" /\ mover' = mover) => ret'.flag = (ret'.id2 \in StoredIds)]_vars

----------------------------------------------------------------------------
(* RetrievalEngine *)
(* A text is a sequence of one-character strings.  A KnowledgeItem is a    *)
(* record [item_id, content, source, confidence, metadata, created_at], a  *)
(* KnowledgeQuery a record [query_id, query_text, query_type, filters,     *)
(* top_k, threshold]; a confidence is in units of 1/TenthScale, created_at *)
(* and now are in days.  A result list is a sequence of <<item_id, score>>.*)

\* str.lower() on the model's alphabet
lower_char(c) == CASE c = "A" -> "a" [] c = "B" -> "b" [] OTHER -> c

lower(text) == [i \in DOMAIN text |-> lower_char(text[i])]

RECURSIVE split(_, _)
\* set(text.split()): the maximal runs of non-blank characters, word being the run read so far
split(text, word) ==
    IF text = <<>> THEN (IF word = <<>> THEN {} ELSE {word})
    ELSE IF Head(text) = " " THEN (IF word = <<>> THEN {} ELSE {word}) \cup split(Tail(text), <<>>)
    ELSE split(Tail(text), Append(word, Head(text)))

\* part in text
contains_text(text, part) == \E i \in 0..(Len(text) - Len(part)) : SubSeq(text, i + 1, i + Len(part)) = part

\* one turn of the loop of _matches_filters: does this filter key reject the item
rejects(item, key, value, now) ==
    IF key = "source" /\ value # item.source THEN TRUE
    ELSE IF key = "min_confidence" /\ item.confidence < value THEN TRUE
    ELSE IF key = "max_age" THEN now - item.created_at > value
    ELSE (\E m \in item.metadata : m[1] = key) /\ (\E m \in item.metadata : m[1] = key /\ m[2] # value)

matches_filters(item, filters, now) == \A f \in filters : ~rejects(item, f[1], f[2], now)

\* the order of the item ids as strings
Rank(item_id) == CHOOSE n \in 0..9 : Uuid("i", n) = item_id

RECURSIVE insert_by_id(_, _)
insert_by_id(sorted, x) ==
    IF sorted = <<>> THEN <<x>>
    ELSE IF Rank(Head(sorted)[1]) <= Rank(x[1]) THEN <<Head(sorted)>> \o insert_by_id(Tail(sorted), x)
    ELSE <<x>> \o sorted

RECURSIVE sort_by_id(_)
\* list.sort(key=lambda x: x[0])
sort_by_id(s) == IF s = <<>> THEN <<>> ELSE insert_by_id(sort_by_id(SubSeq(s, 1, Len(s) - 1)), s[Len(s)])

\* filtered_results: the results whose item is in the catalog; an error of the search propagates
known_items(results, items_dict) ==
    IF results.status # "ok" THEN results
    ELSE [status |-> "ok", value |-> SelectSeq(results.value, LAMBDA x : Has(items_dict, x[1]))]

semantic_search(db, default_collection_id, query, items_dict, query_embedding) ==
    IF default_collection_id = "" THEN [status |-> "ok", value |-> <<>>]
    ELSE known_items(search_items(db, default_collection_id, query_embedding, query.top_k, query.threshold, query.filters), items_dict)

RECURSIVE keyword_scan(_, _, _)
\* the loop of _keyword_search over the catalog, in dict order
keyword_scan(items, query, now) ==
    IF items = <<>> THEN <<>>
    ELSE LET rest == keyword_scan(Tail(items), query, now)
             item == Head(items).v
             query_tokens == split(lower(query.query_text), <<>>)
             item_tokens == split(lower(item.content), <<>>)
             score == IF query_tokens = {} \/ item_tokens = {} THEN 0
                      ELSE (Cardinality(query_tokens \cap item_tokens) * ScoreScale) \div Cardinality(query_tokens)
         IN  IF query.filters # {} /\ ~matches_filters(item, query.filters, now) THEN rest
             ELSE IF score >= query.threshold THEN <<<<Head(items).k, score>>>> \o rest
             ELSE rest

\* _keyword_search with the sort left out
keyword_search_unsorted(query, items_dict, now) == Slice(keyword_scan(items_dict, query, now), query.top_k)

keyword_search(query, items_dict, now) == Slice(sort_desc(keyword_scan(items_dict, query, now)), query.top_k)

\* semantic_weight = 0.7
SemanticWeight == 7

\* keyword_weight = 0.3
KeywordWeight == 3

\* dict.get(item_id, 0.0) on the dict made of a result list
score_or_zero(results, item_id) ==
    IF \E i \in DOMAIN results : results[i][1] = item_id
    THEN results[CHOOSE i \in DOMAIN results : results[i][1] = item_id /\ \A j \in DOMAIN results : results[j][1] = item_id => j <= i][2]
    ELSE 0

\* the combination that takes the better of an item's two scores
combine_best(semantic_results, keyword_results, query, order) ==
    LET all_item_ids == {semantic_results.value[i][1] : i \in DOMAIN semantic_results.value} \cup {keyword_results[i][1] : i \in DOMAIN keyword_results}
        combined_score(id) == Max(score_or_zero(semantic_results.value, id), score_or_zero(keyword_results, id))
        kept == SelectSeq(order, LAMBDA id : id \in all_item_ids /\ combined_score(id) >= query.threshold)
        combined_scores == [i \in DOMAIN kept |-> <<kept[i], combined_score(kept[i])>>]
    IN  IF semantic_results.status # "ok" THEN semantic_results
        ELSE [status |-> "ok", value |-> Slice(sort_desc(combined_scores), query.top_k)]

\* the combination of the two result lists, order being the order in which the set all_item_ids is iterated
combine(semantic_results, keyword_results, query, order) ==
    LET all_item_ids == {semantic_results.value[i][1] : i \in DOMAIN semantic_results.value} \cup {keyword_results[i][1] : i \in DOMAIN keyword_results}
        combined_score(id) == (score_or_zero(semantic_results.value, id) * SemanticWeight + score_or_zero(keyword_results, id) * KeywordWeight) \div TenthScale
        kept == SelectSeq(order, LAMBDA id : id \in all_item_ids /\ combined_score(id) >= query.threshold)
        combined_scores == [i \in DOMAIN kept |-> <<kept[i], combined_score(kept[i])>>]
    IN  IF semantic_results.status # "ok" THEN semantic_results
        ELSE [status |-> "ok", value |-> Slice(sort_desc(combined_scores), query.top_k)]

hybrid_search(db, default_collection_id, query, items_dict, query_embedding, now, order) ==
    combine(semantic_search(db, default_collection_id, query, items_dict, query_embedding), keyword_search(query, items_dict, now), query, order)

RECURSIVE exact_scan(_, _, _)
\* the loop of _exact_search over the catalog, in dict order
exact_scan(items, query, now) ==
    IF items = <<>> THEN <<>>
    ELSE LET rest == exact_scan(Tail(items), query, now)
             item == Head(items).v
         IN  IF query.filters # {} /\ ~matches_filters(item, query.filters, now) THEN rest
             ELSE IF contains_text(lower(item.content), lower(query.query_text)) THEN <<<<Head(items).k, ScoreScale>>>> \o rest
             ELSE rest

exact_search(query, items_dict, now) == Slice(sort_by_id(exact_scan(items_dict, query, now)), query.top_k)

QueryTypes == {"semantic", "keyword", "hybrid", "exact"}

\* the (item_id, score) list the response is built from
process_query(db, default_collection_id, query, items_dict, query_embedding, now, order) ==
    IF query.query_type = "semantic" THEN semantic_search(db, default_collection_id, query, items_dict, query_embedding)
    ELSE IF query.query_type = "keyword" THEN [status |-> "ok", value |-> keyword_search(query, items_dict, now)]
    ELSE IF query.query_type = "hybrid" THEN hybrid_search(db, default_collection_id, query, items_dict, query_embedding, now, order)
    ELSE IF query.query_type = "exact" THEN [status |-> "ok", value |-> exact_search(query, items_dict, now)]
    ELSE semantic_search(db, default_collection_id, query, items_dict, query_embedding)

----------------------------------------------------------------------------
(* KnowledgeModule *)
(* An event is a record [event_id, event_type, id, count]: id is the       *)
(* item_id or query_id of its details, count the result_count of a query.  *)
(* The embedding provider is outside the code: what get_embedding returns  *)
(* is an input of the call, a record [raised, vector].                     *)

KM == [db |-> VDB, mem |-> MEM, knowledge_items |-> knowledge_items, events |-> events, session_states |-> session_states]

\* the embeddings the provider returns for contents
GoodEmbeddings == {<<1, 0>>, <<3, 4>>}

\* dimension=768 of the default collection: here the length of the model's embeddings
DefaultDimension == Len(CHOOSE v \in GoodEmbeddings : TRUE)

\* self.default_collection_id: the first collection id drawn
DefaultCollection == Uuid("c", 1)

\* the facade after __init__
NewKM ==
    [db |-> create_collection(EmptyVDB, DefaultCollection, "default_knowledge", DefaultDimension),
     mem |-> [short |-> <<>>, long |-> <<>>, categories |-> <<>>],
     knowledge_items |-> <<>>,
     events |-> <<>>,
     session_states |-> <<>>]

\* len(self.events) > 1000
EventLimit == 1000

\* _log_event that cuts a full log to its first 1000 events
log_event_keep_first(evs, event) ==
    LET appended == Append(evs, event)
    IN  IF Len(appended) > EventLimit THEN SubSeq(appended, 1, EventLimit) ELSE appended

log_event(evs, event) ==
    LET appended == Append(evs, event)
    IN  IF Len(appended) > EventLimit THEN SubSeq(appended, Len(appended) - EventLimit + 1, Len(appended)) ELSE appended

EmbeddingError == "EmbeddingError"

\* add_knowledge_item that leaves the catalog as it was when the embedding fails
add_knowledge_item_atomic(km, item_id, entry_id, event_id, content, source, confidence, metadata, embedding, now) ==
    LET item == [item_id |-> item_id, content |-> content, source |-> source, confidence |-> confidence, metadata |-> metadata, created_at |-> now]
        added == add_vector(km.db, entry_id, DefaultCollection, embedding.vector, item_id, metadata)
        memory_item == [item_id |-> item_id, content |-> content, memory_type |-> "semantic", importance |-> confidence, access_count |-> 0, last_accessed |-> now]
    IN  IF embedding.raised THEN [km |-> km, status |-> EmbeddingError, value |-> ""]
        ELSE IF added.status # "ok" THEN [km |-> km, status |-> added.status, value |-> ""]
        ELSE [km |-> [km EXCEPT !.knowledge_items = Put(@, item_id, item),
                                !.db = added.db,
                                !.mem = store_item(km.mem, "", memory_item).mem,
                                !.events = log_event(@, [event_id |-> event_id, event_type |-> "item_added", id |-> item_id, count |-> 0])],
              status |-> "ok", value |-> item_id]

add_knowledge_item(km, item_id, entry_id, event_id, content, source, confidence, metadata, embedding, now) ==
    LET item == [item_id |-> item_id, content |-> content, source |-> source, confidence |-> confidence, metadata |-> metadata, created_at |-> now]
        km1 == [km EXCEPT !.knowledge_items = Put(@, item_id, item)]
        added == add_vector(km.db, entry_id, DefaultCollection, embedding.vector, item_id, metadata)
        memory_item == [item_id |-> item_id, content |-> content, memory_type |-> "semantic", importance |-> confidence, access_count |-> 0, last_accessed |-> now]
    IN  IF embedding.raised THEN [km |-> km1, status |-> EmbeddingError, value |-> ""]
        ELSE IF added.status # "ok" THEN [km |-> km1, status |-> added.status, value |-> ""]
        ELSE [km |-> [km1 EXCEPT !.db = added.db,
                                 !.mem = store_item(km.mem, "", memory_item).mem,
                                 !.events = log_event(@, [event_id |-> event_id, event_type |-> "item_added", id |-> item_id, count |-> 0])],
              status |-> "ok", value |-> item_id]

\* delete_knowledge_item that logs the removal before it looks the item up
delete_knowledge_item_logged(km, event_id, item_id) ==
    LET logged == log_event(km.events, [event_id |-> event_id, event_type |-> "item_removed", id |-> item_id, count |-> 0])
    IN  IF ~Has(km.knowledge_items, item_id)
        THEN [km |-> [km EXCEPT !.events = logged], value |-> FALSE, vectors |-> 0]
        ELSE LET deleted == delete_item_vectors(km.db, item_id)
             IN  [km |-> [knowledge_items |-> Del(km.knowledge_items, item_id),
                          db |-> deleted.db,
                          mem |-> delete_item(km.mem, item_id).mem,
                          events |-> logged,
                          session_states |-> km.session_states],
                  value |-> TRUE, vectors |-> deleted.value]

\* delete_knowledge_item that leaves the memory item where it is
delete_knowledge_item_keep_memory(km, event_id, item_id) ==
    IF ~Has(km.knowledge_items, item_id)
    THEN [km |-> km, value |-> FALSE, vectors |-> 0]
    ELSE LET deleted == delete_item_vectors(km.db, item_id)
         IN  [km |-> [km EXCEPT !.knowledge_items = Del(@, item_id),
                                !.db = deleted.db,
                                !.events = log_event(@, [event_id |-> event_id, event_type |-> "item_removed", id |-> item_id, count |-> 0])],
              value |-> TRUE, vectors |-> deleted.value]

\* vectors is the count delete_item_vectors returned, which the facade drops
delete_knowledge_item(km, event_id, item_id) ==
    IF ~Has(km.knowledge_items, item_id)
    THEN [km |-> km, value |-> FALSE, vectors |-> 0]
    ELSE LET deleted == delete_item_vectors(km.db, item_id)
         IN  [km |-> [knowledge_items |-> Del(km.knowledge_items, item_id),
                      db |-> deleted.db,
                      mem |-> delete_item(km.mem, item_id).mem,
                      events |-> log_event(km.events, [event_id |-> event_id, event_type |-> "item_removed", id |-> item_id, count |-> 0]),
                      session_states |-> km.session_states],
              value |-> TRUE, vectors |-> deleted.value]

\* lines 168-180: the event of the query and its response; an error of the engine propagates
query_executed(km, query_id, event_id, response) ==
    IF response.status # "ok" THEN [km |-> km, status |-> response.status, value |-> <<>>]
    ELSE [km |-> [km EXCEPT !.events = log_event(@, [event_id |-> event_id, event_type |-> "query_executed", id |-> query_id, count |-> Len(response.value)])],
          status |-> "ok", value |-> response.value]

query_knowledge(km, query_id, event_id, query_text, query_type, filters, top_k, threshold, query_embedding, now, order) ==
    query_executed(km, query_id, event_id,
                   process_query(km.db, DefaultCollection,
                                 [query_id |-> query_id, query_text |-> query_text, query_type |-> query_type, filters |-> filters, top_k |-> top_k, threshold |-> threshold],
                                 km.knowledge_items, query_embedding, now, order))

\* context_window=None of a new KnowledgeState
NoWindow == [window_id |-> "", items |-> <<>>, max_tokens |-> 0, current_tokens |-> 0, strategy |-> ""]

\* KnowledgeState(session_id, context_window=None, recent_queries=[], recent_results={})
NewState(session_id) == [session_id |-> session_id, context_window |-> NoWindow, recent_queries |-> <<>>, recent_results |-> <<>>]

\* KnowledgeModule.create_context_window that logs nothing
km_create_context_window_unlogged(km, window_id, event_id, session_id, max_tokens, strategy, now) ==
    LET context_window == create_context_window(km.mem, window_id, max_tokens, strategy, now)
        state == IF Has(km.session_states, session_id) THEN Get(km.session_states, session_id) ELSE NewState(session_id)
    IN  [km |-> [km EXCEPT !.session_states = Put(@, session_id, [state EXCEPT !.context_window = context_window])],
         status |-> "ok", value |-> context_window]

\* KnowledgeModule.create_context_window
km_create_context_window(km, window_id, event_id, session_id, max_tokens, strategy, now) ==
    LET context_window == create_context_window(km.mem, window_id, max_tokens, strategy, now)
        state == IF Has(km.session_states, session_id) THEN Get(km.session_states, session_id) ELSE NewState(session_id)
    IN  [km |-> [km EXCEPT !.session_states = Put(@, session_id, [state EXCEPT !.context_window = context_window]),
                           !.events = log_event(@, [event_id |-> event_id, event_type |-> "context_updated", id |-> session_id, count |-> Len(context_window.items)])],
         status |-> "ok", value |-> context_window]

\* top_k=5 of the query update_context makes
ContextTopK == 5

\* len(state.recent_queries) > 10
RecentLimit == 10

\* update_context that keeps the first queries of a full list
remember_first(state, query, response) ==
    LET appended == Append(state.recent_queries, query)
    IN  [state EXCEPT !.recent_queries = IF Len(appended) > RecentLimit THEN SubSeq(appended, 1, RecentLimit) ELSE appended,
                      !.recent_results = Put(@, query.query_id, response)]

\* lines 262-280 of update_context: the query joins recent_queries, cut to the last 10, and its response recent_results
remember(state, query, response) ==
    LET appended == Append(state.recent_queries, query)
    IN  [state EXCEPT !.recent_queries = IF Len(appended) > RecentLimit THEN SubSeq(appended, Len(appended) - RecentLimit + 1, Len(appended)) ELSE appended,
                      !.recent_results = Put(@, query.query_id, response)]

\* update_context once its query has returned response in km; the response
\* carries the query id process_query copied from the query
context_updated(km, response, query_id, window_id, event_id, session_id, query_text, max_tokens, now) ==
    LET state == IF Has(km.session_states, session_id) THEN Get(km.session_states, session_id) ELSE NewState(session_id)
        query == [query_id |-> query_id, query_text |-> query_text, query_type |-> "semantic", filters |-> {}, top_k |-> ContextTopK, threshold |-> 0]
    IN  km_create_context_window([km EXCEPT !.session_states = Put(@, session_id, remember(state, query, [query_id |-> query_id, items |-> response]))],
                                 window_id, event_id, session_id, max_tokens, "importance_recency", now)

\* an error of the query propagates before the session is touched
update_context(km, query_id, window_id, event_ids, session_id, query_text, max_tokens, query_embedding, now) ==
    LET response == query_knowledge(km, query_id, event_ids[1], query_text, "semantic", {}, ContextTopK, 0, query_embedding, now, <<>>)
    IN  IF response.status # "ok" THEN [km |-> km, status |-> response.status, value |-> NoWindow]
        ELSE context_updated(response.km, response.value, query_id, window_id, event_ids[2], session_id, query_text, max_tokens, now)

SetKM(km) ==
    /\ SetVDB(km.db)
    /\ short_term_memory' = km.mem.short /\ long_term_memory' = km.mem.long /\ categories' = km.mem.categories
    /\ knowledge_items' = km.knowledge_items
    /\ events' = km.events
    /\ session_states' = km.session_states

----------------------------------------------------------------------------
(* One query of a catalog *)

\* knowledge items in the catalog that is queried (SpecQuery)
MaxCatalog == 2

KnowledgeInputs ==
    {[content |-> <<"a", " ", "b">>, source |-> "web", confidence |-> 8, metadata |-> {<<"lang", "en">>}, embedding |-> [raised |-> FALSE, vector |-> <<1, 0>>]],
     [content |-> <<"A">>, source |-> "doc", confidence |-> 5, metadata |-> {}, embedding |-> [raised |-> FALSE, vector |-> <<3, 4>>]],
     [content |-> <<"b">>, source |-> "web", confidence |-> 8, metadata |-> {<<"lang", "en">>}, embedding |-> [raised |-> FALSE, vector |-> <<1, 0>>]]}

QueryTexts == {<<"a">>, <<"B", " ", "a">>, <<>>}

\* min_confidence in tenths, max_age in days
QueryFilters == {{}, {<<"source", "web">>}, {<<"lang", "en">>}, {<<"min_confidence", 6>>}, {<<"max_age", 0>>}}

\* the day of the query, the items being created on day 0
QueryDays == {0, 1}

QueryTopKs == 0..MaxCatalog

QueryThresholds == {0, 60, 120}

\* what the provider returns for the query text: an embedding, or a vector of another length
QueryEmbeddings == {<<1, 0>>, <<1>>}

\* the sequences that list every element of a set once
Orders(S) == {o \in [1..Cardinality(S) -> S] : \A i, j \in 1..Cardinality(S) : o[i] = o[j] => i = j}

RECURSIVE add_items(_, _, _, _)
\* the facade after add_knowledge_item of each input in turn, the n-th item getting the n-th of the ids
add_items(km, inputs, ids, n) ==
    IF n > Len(inputs) THEN km
    ELSE add_items(add_knowledge_item(km, ids[n], Uuid("e", n), Uuid("v", n), inputs[n].content, inputs[n].source,
                                      inputs[n].confidence, inputs[n].metadata, inputs[n].embedding, 0).km, inputs, ids, n + 1)

\* uuid4 strings are random: the items' ids are in any order
InitQuery ==
    /\ \E n \in 0..MaxCatalog : \E inputs \in [1..n -> KnowledgeInputs] :
       \E ids \in {o \in [1..n -> {Uuid("i", i) : i \in 1..MaxCatalog}] : \A i, j \in 1..n : o[i] = o[j] => i = j} :
        LET km == add_items(NewKM, inputs, ids, 1)
        IN  /\ collections = km.db.collections /\ entries = km.db.entries /\ item_mapping = km.db.item_mapping
            /\ short_term_memory = km.mem.short /\ long_term_memory = km.mem.long /\ categories = km.mem.categories
            /\ knowledge_items = km.knowledge_items
            /\ events = km.events
            /\ session_states = km.session_states
            /\ uuid_count = [NoUuids EXCEPT !.collection = 1, !.entry = n, !.item = n, !.event = n]
    /\ clock \in QueryDays /\ mover = Idle /\ ret = NoCall

\* the state and the record of a query_knowledge call that returned r
Queried(r, query_text, query_type, filters, top_k, threshold, query_embedding) ==
    /\ events' = r.km.events
    /\ uuid_count' = [uuid_count EXCEPT !.query = @ + 1, !.event = IF r.status = "ok" THEN @ + 1 ELSE @]
    /\ ret' = [NoCall EXCEPT !.op = "query_knowledge", !.status = r.status, !.tag = query_type, !.text = query_text,
                             !.metadata = filters, !.top_k = top_k, !.threshold = threshold, !.vector = query_embedding,
                             !.list = r.value]
    /\ UNCHANGED <<vdbVars, memVars, knowledge_items, session_states, clock, mover>>

QueryKnowledge(query_text, query_type, filters, top_k, threshold, query_embedding, order) ==
    Queried(query_knowledge(KM, Uuid("q", uuid_count.query + 1), Uuid("v", uuid_count.event + 1), query_text, query_type,
                            filters, top_k, threshold, query_embedding, clock, order),
            query_text, query_type, filters, top_k, threshold, query_embedding)

\* one query of the catalog: a query changes nothing a later query reads
NextQuery ==
    /\ ret = NoCall
    /\ \E x \in QueryTexts, y \in QueryTypes, f \in QueryFilters, k \in QueryTopKs, t \in QueryThresholds, q \in QueryEmbeddings :
       \E order \in Orders(Keys(knowledge_items)) : QueryKnowledge(x, y, f, k, t, q, order)

SpecQuery == InitQuery /\ [][NextQuery]_vars

\* C3: a search_vectors, search_items or query_knowledge call of any query
\* type, with any top_k and threshold, returns at most top_k results, every
\* score at least the threshold, and scores that never increase along the list.
C3_TopKContract ==
    (ret.op \in {"search_vectors", "search_items", "query_knowledge"} /\ ret.status = "ok") =>
        /\ Len(ret.list) <= ret.top_k
        /\ \A i \in DOMAIN ret.list : ret.list[i][2] >= ret.threshold
        /\ \A i, j \in DOMAIN ret.list : i < j => ret.list[i][2] >= ret.list[j][2]

----------------------------------------------------------------------------
(* The facade and its components under their mutating calls *)

\* add_knowledge_item calls, vectors ever added and categories ever created (SpecKm)
MaxAdds == 1

MaxVectors == 2

MaxCategories == 1

\* what callers add: an item the provider embeds, one for which it raises,
\* and one for which it returns a vector of another length
AddInputs ==
    {[content |-> <<"a">>, source |-> "web", confidence |-> 8, metadata |-> {}, embedding |-> [raised |-> FALSE, vector |-> <<1, 0>>]],
     [content |-> <<"a">>, source |-> "web", confidence |-> 8, metadata |-> {}, embedding |-> [raised |-> TRUE, vector |-> <<>>]],
     [content |-> <<"a">>, source |-> "web", confidence |-> 8, metadata |-> {}, embedding |-> [raised |-> FALSE, vector |-> <<1>>]]}

\* every id uuid4 can return within the bounds, and one it never returns
KmItemIds == {Uuid("i", i) : i \in 0..MaxAdds}

KmCollectionIds == {Uuid("c", i) : i \in 0..MaxCollections}

KmEntryIds == {Uuid("e", i) : i \in 0..MaxVectors}

KmCategoryIds == {Uuid("g", i) : i \in 0..MaxCategories}

AddKnowledgeItem(input) ==
    LET item_id == Uuid("i", uuid_count.item + 1)
        r == add_knowledge_item(KM, item_id, Uuid("e", uuid_count.entry + 1), Uuid("v", uuid_count.event + 1), input.content,
                                input.source, input.confidence, input.metadata, input.embedding, clock)
    IN  /\ SetKM(r.km)
        /\ uuid_count' = [uuid_count EXCEPT !.item = @ + 1,
                                            !.entry = IF r.status = "ok" THEN @ + 1 ELSE @,
                                            !.event = IF r.status = "ok" THEN @ + 1 ELSE @]
        /\ ret' = [NoCall EXCEPT !.op = "add_knowledge_item", !.status = r.status, !.id2 = item_id, !.vector = input.embedding.vector]
        /\ UNCHANGED <<clock, mover>>

DeleteKnowledgeItem(item_id) ==
    LET r == delete_knowledge_item(KM, Uuid("v", uuid_count.event + 1), item_id)
    IN  /\ SetKM(r.km)
        /\ uuid_count' = IF r.value THEN [uuid_count EXCEPT !.event = @ + 1] ELSE uuid_count
        /\ ret' = [NoCall EXCEPT !.op = "delete_knowledge_item", !.id2 = item_id, !.flag = r.value, !.count = r.vectors]
        /\ UNCHANGED <<clock, mover>>

CreateCategory(name, parent_id) ==
    LET category_id == Uuid("g", uuid_count.category + 1)
    IN  /\ SetMEM(create_category(MEM, category_id, name, parent_id))
        /\ uuid_count' = [uuid_count EXCEPT !.category = @ + 1]
        /\ ret' = [NoCall EXCEPT !.op = "create_category", !.id1 = category_id]
        /\ UNCHANGED <<vdbVars, kmVars, mover, clock>>

AddItemToCategory(item_id, category_id) ==
    LET r == add_item_to_category(MEM, item_id, category_id)
    IN  /\ SetMEM(r.mem)
        /\ ret' = [NoCall EXCEPT !.op = "add_item_to_category", !.id1 = category_id, !.id2 = item_id, !.flag = r.value]
        /\ UNCHANGED <<vdbVars, kmVars, uuid_count, mover, clock>>

\* the facade after __init__
InitFacade ==
    /\ collections = NewKM.db.collections /\ entries = NewKM.db.entries /\ item_mapping = NewKM.db.item_mapping
    /\ InitMem /\ InitKm
    /\ uuid_count = [NoUuids EXCEPT !.collection = 1]
    /\ clock = 0 /\ mover = Idle /\ ret = NoCall

\* a copy of a knowledge item's memory item that a caller stores as short-term
ShortTermCopy(item_id) == [item_id |-> item_id, content |-> <<"a">>, memory_type |-> "short_term", importance |-> 8, access_count |-> 0, last_accessed |-> 0]

NextKm ==
    \/ \E input \in AddInputs : uuid_count.item < MaxAdds /\ uuid_count.entry < MaxVectors /\ AddKnowledgeItem(input)
    \/ \E i \in KmItemIds : DeleteKnowledgeItem(i)
    \/ uuid_count.collection < MaxCollections /\ CreateCollection(DefaultDimension)
    \/ \E c \in KmCollectionIds, i \in KmItemIds \ {Uuid("i", 0)} : uuid_count.entry < MaxVectors /\ AddVector(c, <<1, 0>>, i, {})
    \/ \E c \in KmCollectionIds, e \in KmEntryIds : DeleteVector(c, e)
    \/ \E i \in KmItemIds : DeleteItemVectors(i)
    \/ \E c \in KmCollectionIds : DeleteCollection(c)
    \/ \E i \in KmItemIds : StoreItem(ShortTermCopy(i))
    \/ \E i \in KmItemIds : DeleteItem(i)
    \/ uuid_count.category < MaxCategories /\ CreateCategory("topic", "")
    \/ \E i \in KmItemIds, g \in KmCategoryIds : AddItemToCategory(i, g)

\* the facade, with its vector store and memory manager open to direct calls
SpecKm == InitFacade /\ [][NextKm]_vars

----------------------------------------------------------------------------
(* Claims on deletion *)

\* the (collection_id, entry_id) of the entries that carry an item id
VectorsOf(ents, item_id) ==
    {p \in Keys(ents) \X KmEntryIds : Has(Get(ents, p[1]), p[2]) /\ Get(Get(ents, p[1]), p[2]).item_id = item_id}

Mentioned(ents, mapping, short, long, cats, item_id) ==
    \/ VectorsOf(ents, item_id) # {}
    \/ Has(mapping, item_id)
    \/ Has(short, item_id)
    \/ Has(long, item_id)
    \/ \E i \in DOMAIN cats : Contains(cats[i].v.items, item_id)

\* C6: delete_knowledge_item of a catalog item removes every vector of the item
\* from every collection (delete_item_vectors returns their number) and the
\* memory item and its id from every category; afterwards no vector entry,
\* reverse-index entry, tier map or category mentions the id.
C6_DeleteCascades ==
    [][(ret'.op = "delete_knowledge_item" /\ ret'.flag) =>
        /\ ret'.count = Cardinality(VectorsOf(entries, ret'.id2))
        /\ ~Mentioned(entries', item_mapping', short_term_memory', long_term_memory', categories', ret'.id2)]_vars

StoresUnchanged == UNCHANGED <<collections, entries, item_mapping, short_term_memory, long_term_memory, categories, knowledge_items, events>>

----------------------------------------------------------------------------
(* The memory manager with categories *)

CategoryItemIds == {"x", "y"}

CategoryItemInputs == {[item_id |-> id, content |-> <<"a">>, memory_type |-> t, importance |-> 2, access_count |-> 0, last_accessed |-> 0] : id \in CategoryItemIds, t \in {"short_term", "long_term"}}

NextCategory ==
    \/ \E item \in CategoryItemInputs : StoreItem(item)
    \/ \E id \in CategoryItemIds : DeleteItem(id)
    \/ \E id \in CategoryItemIds : MoveToLongTerm(id)
    \/ \E id \in CategoryItemIds : MoveToShortTerm(id)
    \/ OptimizeMemory
    \/ uuid_count.category < MaxCategories /\ CreateCategory("topic", "")
    \/ \E id \in CategoryItemIds \cup {"z"}, g \in KmCategoryIds : AddItemToCategory(id, g)

\* the memory manager under its storing, deleting, moving and categorising calls
SpecCategory == InitMemory /\ [][NextCategory]_vars

\* every id a category lists is stored in a tier, and is listed once
NoDanglingReference ==
    \A c \in DOMAIN categories :
        LET items == categories[c].v.items
        IN  /\ \A i \in DOMAIN items : items[i] \in StoredIds
            /\ \A i, j \in DOMAIN items : items[i] = items[j] => i = j

\* C11: under any sequence of store_item, delete_item, tier moves,
\* optimize_memory, create_category and add_item_to_category, every item id a
\* category lists is stored in the short-term or long-term tier and is listed
\* at most once in that category; add_item_to_category for an unknown item or
\* an unknown category returns False and adds nothing.
C11_NoDanglingCategoryReference ==
    /\ []NoDanglingReference
    /\ [][(ret'.op = "add_item_to_category" /\ (~Has(categories, ret'.id1) \/ ret'.id2 \notin StoredIds)) =>
            (~ret'.flag /\ UNCHANGED memVars)]_vars

\* a categorised item was deleted from a category that still lists another item
C11_Witness ==
    /\ ret.op = "delete_item"
    /\ ret.flag
    /\ ret.id2 \notin StoredIds
    /\ \E c \in DOMAIN categories : categories[c].v.items # <<>>

-----------------------------------------------------------------------------
(* Context windows over a stored short-term memory *)

\* the most items the memory holds when a window is asked for
MaxWindowItems == 3

WindowIds == {Uuid("m", i) : i \in 1..MaxWindowItems}

\* importance in tenths, content and hour of last access: token counts 2, 3, 1 and 1
WindowProfiles ==
    {<<5, <<"a", "b", "c", "d">>, 0>>, <<3, <<"a", "b", "c", "d", "e", "f", "g", "h">>, 1>>, <<2, <<>>, 0>>, <<2, <<>>, 1>>}

\* the hour of the call
WindowNow == 1

WindowItemInputs ==
    {[item_id |-> id, content |-> p[2], memory_type |-> "short_term", importance |-> p[1], access_count |-> 0, last_accessed |-> p[3]] :
        id \in WindowIds, p \in WindowProfiles}

\* the short-term items, in the order they were stored
WindowMemories ==
    {o \in UNION {[1..n -> WindowItemInputs] : n \in 0..MaxWindowItems} : \A i, j \in DOMAIN o : o[i].item_id = o[j].item_id => i = j}

\* with or without an item in the long-term tier
LongTermInputs ==
    {<<>>, <<[item_id |-> "l", content |-> <<>>, memory_type |-> "long_term", importance |-> 9, access_count |-> 0, last_accessed |-> WindowNow]>>}

MaxTokens == -1..6

Strategies == {"importance_recency", "importance", "recency", "random"}

InitWindow ==
    /\ \E o \in WindowMemories, l \in LongTermInputs :
        LET mem == store_all([short |-> <<>>, long |-> <<>>, categories |-> <<>>], l \o o)
        IN  /\ short_term_memory = mem.short
            /\ long_term_memory = mem.long
            /\ categories = mem.categories
            /\ uuid_count = NoUuids
    /\ InitVdb /\ InitKm /\ clock = WindowNow /\ mover = Idle /\ ret = NoCall

CreateContextWindow(max_tokens, strategy) ==
    LET window == create_context_window(MEM, Uuid("w", uuid_count.window + 1), max_tokens, strategy, clock)
    IN  /\ uuid_count' = [uuid_count EXCEPT !.window = @ + 1]
        /\ ret' = [NoCall EXCEPT !.op = "create_context_window", !.id2 = window.window_id, !.list = window.items,
                                 !.top_k = window.max_tokens, !.count = window.current_tokens, !.tag = window.strategy]
        /\ UNCHANGED <<vdbVars, memVars, kmVars, clock, mover>>

NextWindow == ret = NoCall /\ \E max_tokens \in MaxTokens, strategy \in Strategies : CreateContextWindow(max_tokens, strategy)

\* one create_context_window call on each stored memory
SpecWindow == InitWindow /\ [][NextWindow]_vars

\* the window the last call returned
WindowMade == ret.op = "create_context_window"

RECURSIVE TokenSum(_)
TokenSum(items) == IF items = <<>> THEN 0 ELSE Head(items).token_count + TokenSum(Tail(items))

\* the short-term items as the call saw them
ShortTermContextItems == [i \in DOMAIN short_term_memory |-> context_item(short_term_memory[i].v, clock)]

InWindow(x) == \E i \in DOMAIN ret.list : ret.list[i].item_id = x.item_id

\* C12: every window create_context_window returns, for any max_tokens (zero
\* and negative included) and any strategy, has current_tokens equal to the
\* sum of its items' token counts and, when it has items, at most max_tokens;
\* when no short-term item fits max_tokens the window is empty with
\* current_tokens = 0.
C12_WindowBudget ==
    WindowMade =>
        /\ TokenSum(ret.list) = ret.count
        /\ ret.list # <<>> => ret.count <= ret.top_k
        /\ (\A i \in DOMAIN ShortTermContextItems : ShortTermContextItems[i].token_count > ret.top_k) =>
                (ret.list = <<>> /\ ret.count = 0)

\* a window that is full to the budget and leaves a short-term item out
C12_Witness ==
    /\ WindowMade
    /\ ret.list # <<>>
    /\ ret.count = ret.top_k
    /\ Len(ret.list) < Len(short_term_memory)

\* the short-term items the window leaves out, in the order the strategy ranks them
LeftOut(strategy) == SelectSeq(sort_context_items(ShortTermContextItems, strategy), LAMBDA x : ~InWindow(x))

\* C13 as stated: for a window with items, no short-term item left outside
\* the window has token_count <= max_tokens - current_tokens.
C13_NoExcludedItemFits ==
    (WindowMade /\ ret.list # <<>>) =>
        \A i \in DOMAIN ShortTermContextItems :
            ~InWindow(ShortTermContextItems[i]) => ShortTermContextItems[i].token_count > ret.top_k - ret.count

\* C13: for a window with items, the best-ranked short-term item left outside
\* the window has token_count > max_tokens - current_tokens; an item ranked
\* after it may still be small enough for the remaining budget.
C13_BestExcludedItemDoesNotFit ==
    (WindowMade /\ ret.list # <<>> /\ LeftOut(ret.tag) # <<>>) =>
        Head(LeftOut(ret.tag)).token_count > ret.top_k - ret.count

\* a window with items that leaves out two items, the second of which would fit
C13_Witness ==
    /\ WindowMade
    /\ ret.list # <<>>
    /\ Len(LeftOut(ret.tag)) = 2
    /\ LeftOut(ret.tag)[2].token_count <= ret.top_k - ret.count

\* the orders of the short-term items that are descending in the strategy's key
DescendingOrders(strategy) ==
    {o \in Orders(DOMAIN ShortTermContextItems) :
        \A i, j \in DOMAIN o : i < j => sort_key(strategy, ShortTermContextItems[o[i]]) >= sort_key(strategy, ShortTermContextItems[o[j]])}

\* n is the length of the longest prefix of the items in order o whose running
\* token count, item after item, stays at most max_tokens
LongestPrefix(o, n, max_tokens) ==
    /\ n \in 0..Len(o)
    /\ \A k \in 1..n : TokenSum([i \in 1..k |-> ShortTermContextItems[o[i]]]) <= max_tokens
    /\ n < Len(o) => TokenSum([i \in 1..(n + 1) |-> ShortTermContextItems[o[i]]]) > max_tokens

\* C14: for the strategies importance_recency (0.7*importance + 0.3*recency),
\* importance and recency, the items of a window are exactly the longest
\* prefix of the short-term items sorted descending by the strategy's key
\* whose token counts sum to at most max_tokens: the first item in sort order
\* that would overflow and every item after it are left out, even one that
\* would fit.
C14_WindowIsLongestPrefix ==
    (WindowMade /\ ret.tag \in {"importance_recency", "importance", "recency"}) =>
        \E o \in DescendingOrders(ret.tag) : \E n \in 0..Len(o) :
            /\ LongestPrefix(o, n, ret.top_k)
            /\ ret.list = [i \in 1..n |-> ShortTermContextItems[o[i]]]

\* a window by importance and recency that stops before an item that would fit
C14_Witness ==
    /\ WindowMade
    /\ ret.tag = "importance_recency"
    /\ ret.list # <<>>
    /\ \E i \in DOMAIN LeftOut(ret.tag) : LeftOut(ret.tag)[i].token_count <= ret.top_k - ret.count

-----------------------------------------------------------------------------
(* optimize_memory over stored and retrieved items *)

\* "x" is stored in either tier with a low importance, "y" in the short-term tier with a low or a high one
OptimizeItemInputs ==
    {[item_id |-> "x", content |-> <<"a">>, memory_type |-> t, importance |-> 2, access_count |-> 0, last_accessed |-> 0] : t \in MemoryTypes}
    \cup {[item_id |-> "y", content |-> <<"a">>, memory_type |-> "short_term", importance |-> i, access_count |-> 0, last_accessed |-> 0] : i \in {2, 5}}

\* the stored copy retrieve_item would return
Stored(item_id) == IF Has(short_term_memory, item_id) THEN Get(short_term_memory, item_id) ELSE Get(long_term_memory, item_id)

NextOptimize ==
    \/ \E item \in OptimizeItemInputs : StoreItem(item)
    \/ \E id \in {"x", "y"} : id \in StoredIds /\ Stored(id).access_count < LowAccess /\ RetrieveItem(id)
    \/ OptimizeMemory

\* the memory manager under store_item, retrieve_item and optimize_memory
SpecOptimize == InitMemory /\ [][NextOptimize]_vars

\* importance < 0.3 and access_count < 3
IsLow(item) == item.importance < LowImportance /\ item.access_count < LowAccess

\* the ids optimize_memory is to move
LowIds == {id \in Keys(short_term_memory) : IsLow(Get(short_term_memory, id))}

\* C15: optimize_memory moves to long-term exactly the short-term items with
\* importance < 0.3 and access_count < 3: afterwards no short-term item
\* satisfies that predicate, every other short-term item is short-term as it
\* was, every previously long-term item is long-term as it was, the moved
\* items are long-term, the number of stored items is the same (none lost,
\* none duplicated), items_affected is the number moved, and an immediate
\* second call moves nothing.
C15_OptimizeMovesExactlyLowItems ==
    [][/\ ret'.op = "optimize_memory" =>
            /\ Keys(short_term_memory') = Keys(short_term_memory) \ LowIds
            /\ \A id \in Keys(short_term_memory') :
                    /\ ~IsLow(Get(short_term_memory', id))
                    /\ Get(short_term_memory', id) = Get(short_term_memory, id)
            /\ \A id \in LowIds :
                    /\ Has(long_term_memory', id)
                    /\ Get(long_term_memory', id) = [Get(short_term_memory, id) EXCEPT !.memory_type = "long_term"]
            /\ \A id \in Keys(long_term_memory) :
                    /\ Has(long_term_memory', id)
                    /\ Get(long_term_memory', id) = Get(long_term_memory, id)
            /\ Len(short_term_memory') + Len(long_term_memory') = Len(short_term_memory) + Len(long_term_memory)
            /\ ret'.count = Cardinality(LowIds)
       /\ (ret.op = "optimize_memory" /\ ret'.op = "optimize_memory") => (ret'.count = 0 /\ UNCHANGED memVars)
      ]_vars

-----------------------------------------------------------------------------
(* Retrievals, alone and through a category *)

\* the hours the clock runs through
MaxHours == 1

\* "x" is stored in either tier, "y" in the short-term tier
RetrieveItemInputs ==
    {[item_id |-> "x", content |-> <<"a">>, memory_type |-> t, importance |-> 5, access_count |-> 0, last_accessed |-> 0] : t \in MemoryTypes}
    \cup {[item_id |-> "y", content |-> <<"a">>, memory_type |-> "short_term", importance |-> 5, access_count |-> 0, last_accessed |-> 0]}

GetItemsByCategory(category_id) ==
    LET r == get_items_by_category(MEM, category_id, clock)
    IN  /\ SetMEM(r.mem)
        /\ ret' = [NoCall EXCEPT !.op = "get_items_by_category", !.id1 = category_id, !.count = Len(r.value),
                                 !.list = [i \in DOMAIN r.value |-> r.value[i].item_id]]
        /\ UNCHANGED <<vdbVars, kmVars, uuid_count, clock, mover>>

\* an hour passes between two calls
Tick ==
    /\ clock < MaxHours
    /\ clock' = clock + 1
    /\ ret' = [NoCall EXCEPT !.op = "tick"]
    /\ UNCHANGED <<vdbVars, memVars, kmVars, uuid_count, mover>>

\* no stored copy has been retrieved MaxAccess times yet
FewRetrievals == \A e \in {short_term_memory, long_term_memory} : \A i \in DOMAIN e : e[i].v.access_count < MaxAccess

NextRetrieve ==
    \/ \E item \in RetrieveItemInputs : StoreItem(item)
    \/ uuid_count.category < MaxCategories /\ CreateCategory("topic", "")
    \/ \E id \in {"x", "y"}, g \in KmCategoryIds : AddItemToCategory(id, g)
    \/ \E id \in {"x", "y", "z"} : FewRetrievals /\ RetrieveItem(id)
    \/ \E g \in KmCategoryIds \cup {"none"} : FewRetrievals /\ GetItemsByCategory(g)
    \/ Tick

\* the memory manager under stores, categorisations and retrievals as time passes
SpecRetrieve == InitMemory /\ [][NextRetrieve]_vars

\* the tier maps differ from the present ones in the access record of the ids in touched alone:
\* each has one access more and is last accessed at the hour of the call
OnlyTouched(touched) ==
    /\ Keys(short_term_memory') = Keys(short_term_memory)
    /\ Keys(long_term_memory') = Keys(long_term_memory)
    /\ \A id \in Keys(short_term_memory) :
            Get(short_term_memory', id) =
                IF id \in touched
                THEN [Get(short_term_memory, id) EXCEPT !.access_count = @ + 1, !.last_accessed = clock]
                ELSE Get(short_term_memory, id)
    /\ \A id \in Keys(long_term_memory) :
            Get(long_term_memory', id) =
                IF id \in touched /\ ~Has(short_term_memory, id)
                THEN [Get(long_term_memory, id) EXCEPT !.access_count = @ + 1, !.last_accessed = clock]
                ELSE Get(long_term_memory, id)
    /\ categories' = categories

\* the ids category_id lists
Members(category_id) ==
    IF Has(categories, category_id)
    THEN {Get(categories, category_id).items[i] : i \in DOMAIN Get(categories, category_id).items}
    ELSE {}

\* C16: each successful retrieve_item(id), and each retrieval that
\* get_items_by_category makes for a member of the category, adds exactly one
\* to the item's access_count and sets its last_accessed to the time of the
\* call, and leaves the item's tier, every other item and all categories as
\* they were; retrieve_item of an unknown id returns None and changes nothing.
C16_RetrievalCountsOneAccess ==
    [][/\ (ret'.op = "retrieve_item" /\ ret'.id2 \in StoredIds) =>
            (ret'.flag /\ OnlyTouched({ret'.id2}) /\ ret'.count = Stored(ret'.id2).access_count + 1)
       /\ (ret'.op = "retrieve_item" /\ ret'.id2 \notin StoredIds) => (~ret'.flag /\ UNCHANGED memVars)
       /\ ret'.op = "get_items_by_category" =>
            (OnlyTouched(Members(ret'.id1) \cap StoredIds) /\ ret'.count = Cardinality(Members(ret'.id1) \cap StoredIds))
      ]_vars

\* a category of two items was read an hour after they were stored, one of them long-term
C16_Witness ==
    /\ ret.op = "get_items_by_category"
    /\ ret.count = 2
    /\ \E i \in DOMAIN long_term_memory : long_term_memory[i].v.access_count = 1 /\ long_term_memory[i].v.last_accessed = 1
    /\ \E i \in DOMAIN short_term_memory : short_term_memory[i].v.access_count = 1 /\ short_term_memory[i].v.last_accessed = 1

-----------------------------------------------------------------------------
(* The scores and the filters of a query (SpecQuery) *)

\* the last call was a query of this type that returned a result list
QueryReturned(query_type) == ret.op = "query_knowledge" /\ ret.tag = query_type /\ ret.status = "ok"

\* the query of the last call
LastQuery == [query_id |-> "", query_text |-> ret.text, query_type |-> ret.tag, filters |-> ret.metadata, top_k |-> ret.top_k, threshold |-> ret.threshold]

ResultIds == {ret.list[i][1] : i \in DOMAIN ret.list}

\* |query_tokens /\ item_tokens| / |query_tokens|, 0 when a side has no token
TokenOverlap(query_text, content) ==
    LET query_tokens == split(lower(query_text), <<>>)
        item_tokens == split(lower(content), <<>>)
    IN  IF query_tokens = {} \/ item_tokens = {} THEN 0
        ELSE (Cardinality(query_tokens \cap item_tokens) * ScoreScale) \div Cardinality(query_tokens)

\* the result list holds, best first and each once, the top_k best of the
\* ids in candidates whose score is at least the threshold
BestOf(candidates, score(_)) ==
    LET passing == {id \in candidates : score(id) >= ret.threshold}
    IN  /\ ResultIds \subseteq passing
        /\ \A i \in DOMAIN ret.list : ret.list[i][2] = score(ret.list[i][1])
        /\ \A i, j \in DOMAIN ret.list : i < j => (ret.list[i][2] >= ret.list[j][2] /\ ret.list[i][1] # ret.list[j][1])
        /\ Len(ret.list) = Min(ret.top_k, Cardinality(passing))
        /\ \A id \in passing \ ResultIds : \A i \in DOMAIN ret.list : ret.list[i][2] >= score(id)

SemanticSide == semantic_search(VDB, DefaultCollection, LastQuery, knowledge_items, ret.vector)

KeywordSide == keyword_search(LastQuery, knowledge_items, clock)

\* the score of an id in a result list, 0 when the list does not hold it
SideScore(results, item_id) ==
    IF \E i \in DOMAIN results : results[i][1] = item_id
    THEN (CHOOSE x \in {results[i] : i \in DOMAIN results} : x[1] = item_id)[2]
    ELSE 0

\* C18: a hybrid query scores every item of the union of the semantic and
\* the keyword result sets as 0.7 * semantic + 0.3 * keyword, a side that did
\* not match the item counting as 0; the combined list is then filtered by
\* the threshold, sorted descending and cut to top_k.
C18_HybridScores ==
    QueryReturned("hybrid") =>
        LET score(id) == (SemanticWeight * SideScore(SemanticSide.value, id) + KeywordWeight * SideScore(KeywordSide, id)) \div TenthScale
        IN  BestOf({SemanticSide.value[i][1] : i \in DOMAIN SemanticSide.value} \cup {KeywordSide[i][1] : i \in DOMAIN KeywordSide}, score)

\* an item matched on both sides, with a semantic score of 0.6 and a keyword score of 0.5, came out with 0.57
C18_Witness ==
    /\ QueryReturned("hybrid")
    /\ \E i \in DOMAIN ret.list :
        /\ SideScore(SemanticSide.value, ret.list[i][1]) = 60
        /\ SideScore(KeywordSide, ret.list[i][1]) = 50
        /\ ret.list[i][2] = 57

\* the conditions of a filter set, as stated: source equal, confidence at least
\* min_confidence, age at most max_age, and any other key in the metadata with an equal value
Passes(item, filters, now) ==
    \A f \in filters :
        IF f[1] = "source" THEN item.source = f[2]
        ELSE IF f[1] = "min_confidence" THEN item.confidence >= f[2]
        ELSE IF f[1] = "max_age" THEN now - item.created_at <= f[2]
        ELSE \E m \in item.metadata : m[1] = f[1] /\ m[2] = f[2]

\* C19: the filter predicate excludes an item on any unmatched condition: an
\* item passes only if its source equals filters.source, its confidence is at
\* least filters.min_confidence, its age in days is at most filters.max_age,
\* and for every other filter key its metadata holds that key with an equal
\* value; an item whose metadata lacks a filtered key is excluded.
C19_FilterExcludesUnmatched ==
    (QueryReturned("keyword") \/ QueryReturned("exact")) =>
        \A id \in ResultIds : Passes(Get(knowledge_items, id), ret.metadata, clock)

\* C20: the filter predicate is shared by all query types: for the same
\* catalog and filters a semantic query admits, before threshold and top_k
\* are applied, exactly the items that the keyword and exact queries are to
\* admit: those whose source equals filters.source, whose confidence is at
\* least filters.min_confidence.  Checked on the queries whose threshold and
\* top_k leave out nothing: every stored vector has a score of at least 0.
C20_SemanticSharesFilter ==
    (QueryReturned("semantic") /\ ret.threshold = 0 /\ ret.top_k >= Len(knowledge_items)) =>
        ResultIds = {id \in Keys(knowledge_items) : Passes(Get(knowledge_items, id), ret.metadata, clock)}

-----------------------------------------------------------------------------
(* The range of the scores of a response *)

\* thresholds below and at zero, and a query embedding opposite to a stored one
ScoreThresholds == {-100, 0}

ScoreEmbeddings == {<<1, 0>>, <<-1, 0>>}

NextScore ==
    /\ ret = NoCall
    /\ \E x \in {<<"a">>, <<>>}, y \in QueryTypes, t \in ScoreThresholds, q \in ScoreEmbeddings :
       \E order \in Orders(Keys(knowledge_items)) : QueryKnowledge(x, y, {}, MaxCatalog, t, q, order)

\* one unfiltered query of a catalog, with a threshold that may be negative
SpecScore == InitQuery /\ [][NextScore]_vars

\* C21: every score of a response lies in [0, 1] for semantic, keyword and
\* hybrid queries, for any stored vectors, query vector and threshold (a
\* negative one included), and is 1.0 for every item an exact query returns;
\* the score map has one entry per returned item and every returned item is
\* in the catalog.
C21_ScoresInUnitInterval ==
    (ret.op = "query_knowledge" /\ ret.status = "ok") =>
        /\ \A i \in DOMAIN ret.list :
            /\ ret.list[i][2] >= 0
            /\ ret.list[i][2] <= ScoreScale
            /\ ret.tag = "exact" => ret.list[i][2] = ScoreScale
            /\ Has(knowledge_items, ret.list[i][1])
        /\ \A i, j \in DOMAIN ret.list : ret.list[i][1] = ret.list[j][1] => i = j

-----------------------------------------------------------------------------
(* The facade's sessions and its event log *)

SessionWindow(session_id, max_tokens, strategy) ==
    LET r == km_create_context_window(KM, Uuid("w", uuid_count.window + 1), Uuid("v", uuid_count.event + 1), session_id, max_tokens, strategy, clock)
    IN  /\ SetKM(r.km)
        /\ uuid_count' = [uuid_count EXCEPT !.window = @ + 1, !.event = @ + 1]
        /\ ret' = [NoCall EXCEPT !.op = "km.create_context_window", !.id1 = session_id, !.id2 = r.value.window_id, !.list = r.value.items,
                                 !.top_k = max_tokens, !.count = r.value.current_tokens, !.tag = strategy]
        /\ UNCHANGED <<clock, mover>>

UpdateContext(session_id, query_text, max_tokens, query_embedding) ==
    LET query_id == Uuid("q", uuid_count.query + 1)
        r == update_context(KM, query_id, Uuid("w", uuid_count.window + 1), <<Uuid("v", uuid_count.event + 1), Uuid("v", uuid_count.event + 2)>>,
                            session_id, query_text, max_tokens, query_embedding, clock)
    IN  /\ SetKM(r.km)
        /\ uuid_count' = IF r.status = "ok" THEN [uuid_count EXCEPT !.query = @ + 1, !.window = @ + 1, !.event = @ + 2]
                         ELSE [uuid_count EXCEPT !.query = @ + 1]
        /\ ret' = [NoCall EXCEPT !.op = "update_context", !.status = r.status, !.id1 = session_id, !.id2 = query_id, !.text = query_text,
                                 !.list = r.value.items, !.top_k = max_tokens, !.count = r.value.current_tokens, !.vector = query_embedding]
        /\ UNCHANGED <<clock, mover>>

\* events logged while every facade call may be made, and events logged beyond the limit of the log
MaxMixed == 1

MaxOverflow == 2

\* any facade call for the first events, then queries until the log has overflowed
NextLog ==
    \/ /\ uuid_count.event < MaxMixed
       /\ \/ \E input \in AddInputs : uuid_count.item < MaxAdds /\ AddKnowledgeItem(input)
          \/ \E i \in KmItemIds : DeleteKnowledgeItem(i)
          \/ SessionWindow("s", 1, "importance")
          \/ \E q \in QueryEmbeddings : uuid_count.query < MaxMixed /\ UpdateContext("s", <<"a">>, 1, q)
    \/ uuid_count.event < EventLimit + MaxOverflow /\ QueryKnowledge(<<"a">>, "keyword", {}, 1, 0, <<1, 0>>, <<>>)

SpecLog == InitFacade /\ [][NextLog]_vars

\* the log is the last min(n, 1000) of the n events logged so far, in the order they were logged
LogIsRecent ==
    /\ Len(events) = Min(uuid_count.event, EventLimit)
    /\ \A i \in DOMAIN events : events[i].event_id = Uuid("v", uuid_count.event - Len(events) + i)

\* C22: the facade's event log is append-only and capped: after any
\* sequence of facade operations it holds at most 1000 events and is the
\* most recent min(n, 1000) of the n events logged so far, in the order they
\* were logged; a step drops only the oldest events and rewrites none.
C22_EventLogCapped ==
    /\ [](Len(events) <= EventLimit /\ LogIsRecent)
    /\ [][LET dropped == Len(events) + (uuid_count'.event - uuid_count.event) - Len(events')
          IN  /\ dropped >= 0
              /\ \A i \in 1..(Len(events) - dropped) : events'[i] = events[i + dropped]]_vars

\* the log has overflowed: its oldest event is no longer the first one logged
C22_Witness ==
    /\ uuid_count.event = EventLimit + MaxOverflow
    /\ Len(events) = EventLimit
    /\ events[1].event_id = Uuid("v", MaxOverflow + 1)

-----------------------------------------------------------------------------
(* The facade under its own calls *)

\* knowledge items added and events logged (SpecSession)
MaxItems == 2

MaxEvents == 3

SessionItemIds == {Uuid("i", i) : i \in 0..MaxItems}

NextSession ==
    \/ \E input \in AddInputs : uuid_count.item < MaxItems /\ uuid_count.event < MaxEvents /\ AddKnowledgeItem(input)
    \/ \E i \in SessionItemIds : uuid_count.event < MaxEvents /\ DeleteKnowledgeItem(i)
    \/ \E y \in {"semantic", "keyword"}, q \in QueryEmbeddings :
            uuid_count.event < MaxEvents /\ uuid_count.query < MaxEvents /\ QueryKnowledge(<<"a">>, y, {}, 1, 0, q, <<>>)
    \/ \E session_id \in {"s", "t"}, max_tokens \in {0, 1} : uuid_count.event < MaxEvents /\ SessionWindow(session_id, max_tokens, "importance")
    \/ \E session_id \in {"s", "t"}, q \in QueryEmbeddings :
            uuid_count.event + 1 < MaxEvents /\ uuid_count.query < MaxEvents /\ UpdateContext(session_id, <<"a">>, 1, q)
    \/ \E i \in SessionItemIds : MoveToShortTerm(i)

\* the facade under add, delete, query and context calls, and the memory manager's move_to_short_term
SpecSession == InitFacade /\ [][NextSession]_vars

\* the step appended events of these types, in this order, to a log it left as it was
Logged(types) ==
    /\ Len(events') = Len(events) + Len(types)
    /\ SubSeq(events', 1, Len(events)) = events
    /\ \A i \in DOMAIN types : events'[Len(events) + i].event_type = types[i]

\* C23: every mutating facade operation appends an event: a successful
\* add_knowledge_item one ITEM_ADDED, a delete_knowledge_item of an existing
\* item one ITEM_REMOVED, a query_knowledge one QUERY_EXECUTED, a
\* create_context_window one CONTEXT_UPDATED, an update_context a
\* QUERY_EXECUTED followed by a CONTEXT_UPDATED; the state the operation
\* changed is in place when the event is in the log.
C23_OperationsLogEvents ==
    [][/\ (ret'.op = "add_knowledge_item" /\ ret'.status = "ok") =>
            (Logged(<<"item_added">>) /\ events'[Len(events')].id = ret'.id2 /\ Has(knowledge_items', ret'.id2))
       /\ (ret'.op = "delete_knowledge_item" /\ ret'.flag) =>
            (Logged(<<"item_removed">>) /\ events'[Len(events')].id = ret'.id2 /\ ~Has(knowledge_items', ret'.id2))
       /\ (ret'.op = "query_knowledge" /\ ret'.status = "ok") =>
            (Logged(<<"query_executed">>) /\ events'[Len(events')].count = Len(ret'.list))
       /\ ret'.op = "km.create_context_window" =>
            (Logged(<<"context_updated">>) /\ Get(session_states', ret'.id1).context_window.window_id = ret'.id2)
       /\ (ret'.op = "update_context" /\ ret'.status = "ok") =>
            (Logged(<<"query_executed", "context_updated">>) /\ events'[Len(events') - 1].id = ret'.id2 /\ events'[Len(events')].id = ret'.id1)
      ]_vars

\* an update_context call logged its two events after an item had been added
C23_Witness ==
    /\ ret.op = "update_context"
    /\ ret.status = "ok"
    /\ Len(events) = MaxEvents
    /\ events[1].event_type = "item_added"

\* C24: add_knowledge_item is not transactional: when the embedding provider
\* raises, or returns a vector whose length is not the collection's
\* dimension, the error reaches the caller and the item stays in the catalog
\* with no vector entry, no memory item and no ITEM_ADDED event; nothing is
\* rolled back, and a vector that is stored is stored as the provider gave it.
C24_AddIsNotTransactional ==
    [][/\ (ret'.op = "add_knowledge_item" /\ (ret'.vector = <<>> \/ Len(ret'.vector) # DefaultDimension)) =>
            /\ ret'.status \in {EmbeddingError, DimensionMismatch}
            /\ knowledge_items' # knowledge_items
            /\ Keys(knowledge_items') = Keys(knowledge_items) \cup {ret'.id2}
            /\ UNCHANGED <<vdbVars, memVars, events, session_states>>
       /\ (ret'.op = "add_knowledge_item" /\ ret'.vector # <<>> /\ Len(ret'.vector) = DefaultDimension) =>
            /\ ret'.status = "ok"
            /\ \E i \in DOMAIN Get(entries', DefaultCollection) :
                    /\ Get(entries', DefaultCollection)[i].v.item_id = ret'.id2
                    /\ Get(entries', DefaultCollection)[i].v.vector = ret'.vector
      ]_vars

\* an item is in the catalog, and in no other store, after the provider returned a vector of the wrong length
C24_Witness ==
    /\ ret.op = "add_knowledge_item"
    /\ ret.status = DimensionMismatch
    /\ Has(knowledge_items, ret.id2)
    /\ ~Has(item_mapping, ret.id2)
    /\ ret.id2 \notin StoredIds
    /\ \A i \in DOMAIN events : events[i].id # ret.id2

\* every add_knowledge_item call so far has succeeded: each drew an item id, and each success an entry id
AllAddsSucceeded == uuid_count.item = uuid_count.entry

\* C27: after any sequence of successful add_knowledge_item and
\* delete_knowledge_item calls the three stores agree: the catalog's item ids
\* are the item ids of the vector store's reverse index, each with exactly
\* one entry, in the default collection, and are the item ids the memory
\* manager holds.
C27_StoresAgree ==
    AllAddsSucceeded =>
        /\ Keys(knowledge_items) = Keys(item_mapping)
        /\ Keys(knowledge_items) = StoredIds
        /\ \A id \in Keys(item_mapping) :
            /\ Len(Get(item_mapping, id)) = 1
            /\ Get(item_mapping, id)[1][1] = DefaultCollection
            /\ Has(Get(entries, DefaultCollection), Get(item_mapping, id)[1][2])

\* one of two added items was deleted
C27_Witness ==
    /\ AllAddsSucceeded
    /\ ret.op = "delete_knowledge_item"
    /\ ret.flag
    /\ Len(knowledge_items) = 1
    /\ uuid_count.item = MaxItems

\* the last call built a context window through the facade
FacadeWindowMade == ret.op = "km.create_context_window" \/ (ret.op = "update_context" /\ ret.status = "ok")

\* C28: a context window holds only items that are in the short-term tier
\* when it is built; add_knowledge_item stores its memory item with memory
\* type SEMANTIC, which store_item puts in the long-term map, so the item is
\* in no window until it is moved to short-term, and a facade whose
\* short-term tier is empty builds an empty window with current_tokens = 0.
C28_WindowHoldsShortTermOnly ==
    /\ [](FacadeWindowMade =>
            /\ \A i \in DOMAIN ret.list : Has(short_term_memory, ret.list[i].item_id)
            /\ short_term_memory = <<>> => (ret.list = <<>> /\ ret.count = 0))
    /\ [][(ret'.op = "add_knowledge_item" /\ ret'.status = "ok") =>
            /\ Has(long_term_memory', ret'.id2)
            /\ Get(long_term_memory', ret'.id2).memory_type = "semantic"
            /\ ~Has(short_term_memory', ret'.id2)]_vars

\* a window holds an item that was moved to short-term while another item is long-term
C28_Witness ==
    /\ FacadeWindowMade
    /\ Len(ret.list) = 1
    /\ long_term_memory # <<>>

\* update_context calls made for two sessions: more than recent_queries keeps
MaxQueries == 12
MaxOtherSession == 1
MaxFailedQueries == 2

NextContext ==
    \/ \E input \in AddInputs : uuid_count.item < 1 /\ uuid_count.query = 0 /\ AddKnowledgeItem(input)
    \/ \E q \in QueryEmbeddings :
            /\ uuid_count.query < MaxQueries
            /\ Len(q) # DefaultDimension => uuid_count.query < MaxFailedQueries
            /\ UpdateContext("s", <<"a">>, 1, q)
    \/ /\ uuid_count.query < MaxQueries
       /\ Has(session_states, "t") => Len(Get(session_states, "t").recent_queries) < MaxOtherSession
       /\ UpdateContext("t", <<"a">>, 1, <<1, 0>>)
    \/ uuid_count.window < MaxOtherSession + 1 /\ SessionWindow("s", 1, "recency")

SpecContext == InitFacade /\ [][NextContext]_vars

\* the query ids of the update_context calls that returned for a session, in
\* call order: each logged its query and then the session's context update
RECURSIVE QueriesOf(_, _)
QueriesOf(log, session_id) ==
    IF Len(log) < 2 THEN <<>>
    ELSE LET n == Len(log)
             earlier == QueriesOf(SubSeq(log, 1, n - 1), session_id)
         IN  IF log[n].event_type = "context_updated" /\ log[n].id = session_id /\ log[n - 1].event_type = "query_executed"
             THEN Append(earlier, log[n - 1].id)
             ELSE earlier

\* C25: for each session recent_queries holds at most 10 queries and is
\* exactly the last min(n, 10) queries of the session's n update_context
\* calls, in call order; each of them has its response in recent_results
\* under its query id; an update_context call leaves every other session's
\* state as it was.
C25_RecentQueriesAreLastTen ==
    /\ [](\A session_id \in Keys(session_states) :
            LET state == Get(session_states, session_id)
                calls == QueriesOf(events, session_id)
                kept == Min(Len(calls), RecentLimit)
            IN  /\ Len(state.recent_queries) <= RecentLimit
                /\ Len(state.recent_queries) = kept
                /\ \A i \in 1..kept :
                    /\ state.recent_queries[i].query_id = calls[Len(calls) - kept + i]
                    /\ Has(state.recent_results, state.recent_queries[i].query_id)
                    /\ Get(state.recent_results, state.recent_queries[i].query_id).query_id = state.recent_queries[i].query_id)
    /\ [][ret'.op = "update_context" =>
            \A session_id \in Keys(session_states) \ {ret'.id1} :
                /\ Has(session_states', session_id)
                /\ Get(session_states', session_id) = Get(session_states, session_id)]_vars

\* the eleventh query of a session has pushed its first one out while another session holds its own
C25_Witness ==
    /\ ret.op = "update_context"
    /\ ret.status = "ok"
    /\ ret.id1 = "s"
    /\ Has(session_states, "t")
    /\ Len(Get(session_states, "t").recent_queries) = MaxOtherSession
    /\ Len(QueriesOf(events, "s")) > RecentLimit
    /\ Len(Get(session_states, "s").recent_queries) = RecentLimit
    /\ Get(session_states, "s").recent_queries[1].query_id # QueriesOf(events, "s")[1]

\* Floating point. A float is sig * 2^exp with a significand of FloatBits
\* bits, rounded to the nearest value, ties to the even significand, as IEEE
\* 754 rounds; the double of the source has 53 bits. The vectors below have
\* small integer components, so their products and sums are exact and only
\* the square root, the product of the magnitudes and the quotient round.
FloatBits == 13

RECURSIVE Pow2(_)
Pow2(n) == IF n = 0 THEN 1 ELSE 2 * Pow2(n - 1)

FloatZero == [sig |-> 0, exp |-> 0]
FloatOne == [sig |-> Pow2(FloatBits - 1), exp |-> 1 - FloatBits]
FloatNeg(x) == [x EXCEPT !.sig = -@]

RECURSIVE exponent_of(_, _, _)
\* the exponent e with 2^(FloatBits-1) <= n / (d * 2^e) < 2^FloatBits
exponent_of(n, d, e) ==
    LET num == IF e < 0 THEN n * Pow2(-e) ELSE n
        den == IF e >= 0 THEN d * Pow2(e) ELSE d
    IN  IF num >= den * Pow2(FloatBits) THEN exponent_of(n, d, e + 1)
        ELSE IF num < den * Pow2(FloatBits - 1) THEN exponent_of(n, d, e - 1)
        ELSE e

\* the float nearest to n / d, for positive n and d
round_nearest(n, d) ==
    LET e == exponent_of(n, d, 0)
        num == IF e < 0 THEN n * Pow2(-e) ELSE n
        den == IF e >= 0 THEN d * Pow2(e) ELSE d
        q == num \div den
        r == num % den
        sig == IF 2 * r > den \/ (2 * r = den /\ q % 2 = 1) THEN q + 1 ELSE q
    IN  IF sig = Pow2(FloatBits) THEN [sig |-> sig \div 2, exp |-> e + 1] ELSE [sig |-> sig, exp |-> e]

RECURSIVE isqrt(_, _, _)
\* the largest s with s * s <= x, found bit by bit
isqrt(x, s, bit) ==
    IF bit = 0 THEN s
    ELSE IF (s + bit) * (s + bit) <= x THEN isqrt(x, s + bit, bit \div 2)
    ELSE isqrt(x, s, bit \div 2)

RECURSIVE sqrt_scale(_, _)
\* the k for which the square root of n * 4^k has FloatBits bits
sqrt_scale(n, k) == IF isqrt(n * Pow2(2 * k), 0, Pow2(FloatBits)) >= Pow2(FloatBits - 1) THEN k ELSE sqrt_scale(n, k + 1)

\* x ** 0.5 and np.sqrt of a non-negative integer n: the float nearest to its square root
float_sqrt(n) ==
    IF n = 0 THEN FloatZero
    ELSE LET k == sqrt_scale(n, 0)
             x == n * Pow2(2 * k)
             s == isqrt(x, 0, Pow2(FloatBits))
             sig == IF s * s + s < x THEN s + 1 ELSE s
         IN  IF sig = Pow2(FloatBits) THEN [sig |-> sig \div 2, exp |-> 1 - k] ELSE [sig |-> sig, exp |-> -k]

\* a * b of two non-negative floats
float_mul(a, b) ==
    IF a.sig = 0 \/ b.sig = 0 THEN FloatZero
    ELSE LET r == round_nearest(a.sig * b.sig, 1) IN [sig |-> r.sig, exp |-> r.exp + a.exp + b.exp]

\* n / b of an integer n and a positive float b
float_div(n, b) ==
    IF n = 0 THEN FloatZero
    ELSE LET r == round_nearest(IF n < 0 THEN -n ELSE n, b.sig)
         IN  [sig |-> IF n < 0 THEN -r.sig ELSE r.sig, exp |-> r.exp - b.exp]

\* VectorDatabase._cosine_similarity in floating point, on arrays of one length
np_cosine_similarity(vec1, vec2) ==
    LET dot_product == Dot(vec1, vec2)
        norm1 == float_sqrt(Dot(vec1, vec1))
        norm2 == float_sqrt(Dot(vec2, vec2))
    IN  IF norm1 = FloatZero \/ norm2 = FloatZero THEN FloatZero ELSE float_div(dot_product, float_mul(norm1, norm2))

\* RetrievalEngine._cosine_similarity in floating point
engine_cosine_similarity(vec1, vec2) ==
    IF vec1 = <<>> \/ vec2 = <<>> \/ Len(vec1) # Len(vec2) THEN FloatZero
    ELSE LET dot_product == Dot(vec1, vec2)
             magnitude1 == float_sqrt(Dot(vec1, vec1))
             magnitude2 == float_sqrt(Dot(vec2, vec2))
         IN  IF magnitude1 = FloatZero \/ magnitude2 = FloatZero THEN FloatZero
             ELSE float_div(dot_product, float_mul(magnitude1, magnitude2))

\* components of the vectors compared
MaxComponent == 2
CosineVectors ==
    {<<x, y>> : x, y \in (-MaxComponent)..MaxComponent} \cup {<<>>, <<3, 4>>, <<-3, -4>>, <<1, 1, 1>>, <<-1, -1, -1>>, <<0, 0, 0>>}

\* ret.vector and ret.list are the two vectors, ret.count and ret.top_k the significand and exponent of the result
Cosine(op, vec1, vec2, similarity) ==
    /\ ret' = [NoCall EXCEPT !.op = op, !.vector = vec1, !.list = vec2, !.count = similarity.sig, !.top_k = similarity.exp]
    /\ UNCHANGED <<vdbVars, memVars, kmVars, uuid_count, clock, mover>>

NextCosine ==
    \/ \E vec1, vec2 \in CosineVectors : ret = NoCall /\ Len(vec1) = Len(vec2) /\ Cosine("vector_database.cosine_similarity", vec1, vec2, np_cosine_similarity(vec1, vec2))
    \/ \E vec1, vec2 \in CosineVectors : ret = NoCall /\ Cosine("retrieval_engine.cosine_similarity", vec1, vec2, engine_cosine_similarity(vec1, vec2))

SpecCosine == InitFacade /\ [][NextCosine]_vars

Negated(v) == [i \in DOMAIN v |-> -v[i]]
IsZeroVector(v) == \A i \in DOMAIN v : v[i] = 0
CosineResult == [sig |-> ret.count, exp |-> ret.top_k]

\* C26: in the vector store's and in the retrieval engine's implementation
\* the cosine similarity of a nonzero vector with itself is 1.0, with its
\* negation -1.0, and with a zero vector 0.0.
C26_CosineCorrect ==
    ret.op \in {"vector_database.cosine_similarity", "retrieval_engine.cosine_similarity"} =>
        /\ (~IsZeroVector(ret.vector) /\ ret.list = ret.vector) => CosineResult = FloatOne
        /\ (~IsZeroVector(ret.vector) /\ ret.list = Negated(ret.vector)) => CosineResult = FloatNeg(FloatOne)
        /\ (IsZeroVector(ret.list) /\ Len(ret.list) = Len(ret.vector)) => CosineResult = FloatZero

\* the hybrid result of the last query had its top_k been the catalog size
FullHybrid(order) ==
    hybrid_search(VDB, DefaultCollection, [LastQuery EXCEPT !.top_k = Len(knowledge_items)], knowledge_items, ret.vector, clock, order)

\* C29: in a hybrid query top_k only cuts the final combined ranking: the
\* result for top_k = k has the scores of the first k entries of the result
\* for a top_k of the catalog size, every returned item is in that result
\* with the same combined score, and the order may differ only among equal
\* scores.
C29_TopKOnlyTruncates ==
    QueryReturned("hybrid") =>
        \A order \in Orders(Keys(knowledge_items)) :
            LET full == FullHybrid(order).value
            IN  /\ Len(ret.list) = Min(ret.top_k, Len(full))
                /\ \A i \in DOMAIN ret.list :
                    /\ ret.list[i][2] = full[i][2]
                    /\ \E j \in DOMAIN full : full[j] = ret.list[i]

-----------------------------------------------------------------------------
\* PlanExecutor. A step is [step_id, dependencies, action_type, status]; the
\* outcome of a step's tool is given with the plan.

KeyError == "KeyError: 'status'"

\* next((s for s in plan.steps if s.step_id == dep_id), None), as the position of the step or 0
find_step(steps, dep_id) ==
    IF \E i \in DOMAIN steps : steps[i].step_id = dep_id
    THEN CHOOSE i \in DOMAIN steps : steps[i].step_id = dep_id /\ \A j \in 1..(i - 1) : steps[j].step_id # dep_id
    ELSE 0

RECURSIVE check_each_dependency(_, _, _)
\* the loop of _check_dependencies over step.dependencies: TRUE, FALSE, or the
\* KeyError of reading "status" from the result of an executed step
check_each_dependency(dependencies, steps, step_results) ==
    IF dependencies = <<>> THEN "True"
    ELSE LET dep_id == Head(dependencies)
             dep_step == find_step(steps, dep_id)
         IN  IF dep_step = 0 THEN "False"
             ELSE IF steps[dep_step].status # "completed" THEN "False"
             ELSE IF Has(step_results, dep_id) /\ "status" \notin DOMAIN Get(step_results, dep_id) THEN KeyError
             ELSE IF Has(step_results, dep_id) /\ Get(step_results, dep_id).status # "completed" THEN "False"
             ELSE check_each_dependency(Tail(dependencies), steps, step_results)

check_dependencies(step, steps, step_results) == check_each_dependency(step.dependencies, steps, step_results)

InSeq(x, seq) == \E k \in DOMAIN seq : seq[k] = x

\* _execute_step: the success flag of the step's result; steps holds the step as IN_PROGRESS
execute_step(step, steps, outcome) ==
    IF step.action_type = "tool_call" THEN outcome = "success"
    ELSE IF step.action_type \in {"goal", "subgoal"}
    THEN \A j \in DOMAIN steps : InSeq(step.step_id, steps[j].dependencies) => steps[j].status = "completed"
    ELSE FALSE

is_critical_step(step, steps) ==
    \/ \E j \in DOMAIN steps : InSeq(step.step_id, steps[j].dependencies)
    \/ step.action_type = "goal"

\* lines 93-101 and 109-112 of execute_plan: the plan's status once the loop has ended
finish_plan(run) ==
    LET status == IF run.status # "failed" THEN (IF run.steps_failed > 0 THEN "failed" ELSE "completed") ELSE run.status
    IN  [run EXCEPT !.status = status, !.success = (status = "completed")]

RECURSIVE run_steps(_, _, _)
\* the loop of execute_plan from step i on
run_steps(run, i, outcomes) ==
    IF i > Len(run.steps) THEN finish_plan(run)
    ELSE LET step == run.steps[i]
             satisfied == check_dependencies(step, run.steps, run.step_results)
         IN  IF satisfied = KeyError
             THEN [run EXCEPT !.status = "failed", !.success = FALSE, !.error = KeyError]
             ELSE IF satisfied = "False"
             THEN run_steps([run EXCEPT !.steps[i].status = "skipped",
                                        !.step_results = Put(@, step.step_id, [status |-> "skipped"])], i + 1, outcomes)
             ELSE LET in_progress == [run.steps EXCEPT ![i].status = "in_progress"]
                      success == execute_step(step, in_progress, outcomes[i])
                      executed == [run EXCEPT !.steps[i].status = IF success THEN "completed" ELSE "failed",
                                              !.steps_completed = IF success THEN @ + 1 ELSE @,
                                              !.steps_failed = IF success THEN @ ELSE @ + 1,
                                              !.step_results = Put(@, step.step_id, [success |-> success])]
                  IN  IF ~success /\ is_critical_step(step, run.steps)
                      THEN finish_plan([executed EXCEPT !.status = "failed"])
                      ELSE run_steps(executed, i + 1, outcomes)

execute_plan(steps, outcomes) ==
    run_steps([steps |-> steps, status |-> "in_progress", success |-> FALSE, steps_completed |-> 0, steps_failed |-> 0,
               step_results |-> <<>>, error |-> ""], 1, outcomes)

\* plans of up to MaxSteps pending steps named as the generator names them
MaxSteps == 3
StepIds == [i \in 1..MaxSteps |-> "step_" \o ToString(i)]
DependencyLists == {<<>>, <<"step_0">>, <<StepIds[1]>>, <<StepIds[2]>>, <<StepIds[1], StepIds[2]>>}
ActionTypes == {"tool_call", "goal", "unknown"}
ToolOutcomes == {"success", "failure", "raises"}
Plans ==
    UNION {[1..n -> DependencyLists \X ActionTypes] : n \in 1..MaxSteps}

PlanSteps(plan) ==
    [i \in DOMAIN plan |-> [step_id |-> StepIds[i], dependencies |-> plan[i][1], action_type |-> plan[i][2], status |-> "pending"]]

\* ret.list holds the steps after the run, ret.vector the outcomes of their tools,
\* ret.metadata the step results, ret.tag the plan's status, ret.flag success, ret.status the exception
ExecutePlan(plan, outcomes) ==
    LET run == execute_plan(PlanSteps(plan), outcomes)
    IN  /\ ret' = [NoCall EXCEPT !.op = "execute_plan", !.list = run.steps, !.vector = outcomes, !.metadata = run.step_results,
                                 !.tag = run.status, !.flag = run.success, !.status = IF run.error = "" THEN "ok" ELSE run.error,
                                 !.count = run.steps_completed, !.top_k = run.steps_failed]
        /\ UNCHANGED <<vdbVars, memVars, kmVars, uuid_count, clock, mover>>

NextPlan ==
    /\ ret = NoCall
    /\ \E plan \in Plans : \E outcomes \in [DOMAIN plan -> ToolOutcomes] : ExecutePlan(plan, outcomes)

SpecPlan == InitFacade /\ [][NextPlan]_vars

Executed(i) == ret.list[i].status \in {"completed", "failed"}

\* the loop reached step i: no exception and no failed critical step ended it before
Reached(i) ==
    \A j \in 1..(i - 1) :
        /\ ret.list[j].status # "pending"
        /\ ~(ret.list[j].status = "failed" /\ is_critical_step(ret.list[j], ret.list))

\* every dependency of step i is an earlier step of the plan that completed
DependenciesCompleted(i) ==
    \A k \in DOMAIN ret.list[i].dependencies :
        \E j \in 1..(i - 1) : ret.list[j].step_id = ret.list[i].dependencies[k] /\ ret.list[j].status = "completed"

\* C30: execute_plan runs the steps in list order and executes a step whenever
\* every one of its dependencies is an earlier step that completed; a step is
\* SKIPPED only when a dependency is missing or did not complete; the plan
\* ends COMPLETED with success = true exactly when no executed step failed
\* and no exception occurred.
C30_PlanExecution ==
    ret.op = "execute_plan" =>
        /\ \A i, j \in DOMAIN ret.list : (i < j /\ ret.list[j].status # "pending") => ret.list[i].status # "pending"
        /\ \A i \in DOMAIN ret.list : (Reached(i) /\ DependenciesCompleted(i)) => Executed(i)
        /\ \A i \in DOMAIN ret.list : ret.list[i].status = "skipped" => ~DependenciesCompleted(i)
        /\ (ret.tag = "completed" /\ ret.flag) <=> (ret.status = "ok" /\ \A i \in DOMAIN ret.list : ret.list[i].status # "failed")
        /\ ret.flag <=> ret.tag = "completed"

====
